---- MODULE Spec2Model ----
(***************************************************************************)
(* Model of the CertPatrol Orchestrator process supervision engine         *)
(* (manager/process_manager.py) together with the status store it writes   *)
(* to (manager/database.py).                                               *)
(*                                                                         *)
(* ProcessManager methods run under `with self.lock:`; each one is split   *)
(* into steps at the points where it reads or writes state shared with     *)
(* the reader threads and the operating system (process liveness, the      *)
(* running flag, the persisted status).  Reader threads and process exits  *)
(* interleave freely with these steps.                                     *)
(*                                                                         *)
(* Seven specifications share the variables: Spec is the supervisor with   *)
(* all its calls; LockSpec is Spec under fairness of the thread that       *)
(* holds the registry lock; StopSpec follows the calls on one search id    *)
(* under fairness of the stopping thread; ReaderSpec follows the output    *)
(* stream of one process line by line through the body of the reader's     *)
(* loop; RulesSpec follows the rules documents and the module-level cache  *)
(* of manager/classifier.py through concurrent get_classifier calls;       *)
(* ClassifySpec applies DomainClassifier.classify to sample domains under  *)
(* sample rules; DistanceSpec applies _distance to pairs of short strings. *)
(***************************************************************************)
EXTENDS Integers, FiniteSets, Sequences, TLC

\* ---- bounds ------------------------------------------------------------
NumSearches == 2          \* search rows present in the database: ids 1..NumSearches
MaxHandles == 2           \* SearchProcess objects constructed during one run
MaxLines == 2             \* lines the followed process writes to its stdout
NumCallers == 2           \* threads that call get_classifier
MaxCalls == 2             \* calls of classify on one classifier and one domain
MaxWordLen == 4           \* length of the strings handed to _distance
MaxMtime == 3             \* modification times given to the rules documents: 1..MaxMtime

\* ---- program constants -------------------------------------------------
MAX_CONCURRENT_SEARCHES == 1     \* config.py: ceiling on alive tracked processes

UnknownId == 0                   \* an id with no row in the searches table
DbIds == 1..NumSearches
Ids == {UnknownId} \cup DbIds
Handles == 1..MaxHandles
NoHandle == 0
NoPid == 0

VARIABLES
    processes,   \* ProcessManager.processes: id -> handle (NoHandle = key absent)
    lock,        \* ProcessManager.lock is held
    mgr,         \* the ProcessManager call that holds the lock and its position
    ret,         \* what the step leading here returned or raised to its caller
    hsearch,     \* SearchProcess.search_id (UnknownId - 1 = object not constructed)
    proc,        \* SearchProcess.process: "none" | "alive" | "exit0" | "exitN"
    running,     \* SearchProcess.running
    thread,      \* position of SearchProcess._read_output
    sigterm,     \* SIGTERM is pending at the living process
    sigkill,     \* SIGKILL is pending at the living process
    status,      \* searches.status column
    pid,         \* searches.pid column (NoPid = NULL)
    emitted,     \* the lines the process of handle RH has written to its stdout
    rpos,        \* how many of them the reader's `for line in stdout` has taken
    rpc,         \* position of the reader inside the loop body
    cur,         \* the reader's local `domain`
    cls,         \* the reader's local `classification`
    offered,     \* the db.add_result calls the reader has made, in order
    results,     \* rows of the results table, in insertion order
    files,       \* the rules documents on disk: path -> exists, mtime, well-formed
    now,         \* the latest modification time given to a file
    cached_classifier,   \* classifier._cached_classifier (the rules it holds)
    cached_rules_path,   \* classifier._cached_rules_path
    cached_mtime,        \* classifier._cached_mtime
    classifier_lock,     \* holder of classifier._classifier_lock (0 = free)
    gc,          \* the get_classifier call of each caller: position and locals
    gret,        \* what the get_classifier step leading here returned or raised
    hcls,        \* self.classifier of the SearchProcess each caller constructed
    used,        \* the rules the line classified in the step leading here was scored with
    krules,      \* DomainClassifier.rules of the classifier under study
    kdomain,     \* the domain handed to classify
    kout,        \* the Classification each call of classify has returned, in order
    dist_a,      \* first argument of the _distance call under study
    dist_b,      \* its second argument
    dist_out     \* <<>> before the call, then <<_distance(a, b), _distance(b, a)>>

\* the output stream of one process and the loop body of its reader
rvars == <<emitted, rpos, rpc, cur, cls, offered, results>>

\* the rules documents, the classifier cache and the calls of get_classifier
cvars == <<files, now, cached_classifier, cached_rules_path, cached_mtime,
           classifier_lock, gc, gret, hcls, used>>

\* one DomainClassifier, one domain, and the calls of classify on them;
\* one pair of strings and the call of _distance on it
kvars == <<krules, kdomain, kout, dist_a, dist_b, dist_out>>

vars == <<processes, lock, mgr, ret, hsearch, proc, running, thread,
          sigterm, sigkill, status, pid, rvars, cvars, kvars>>

hvars == <<hsearch, proc, running, thread, sigterm, sigkill>>
dbvars == <<status, pid>>

Unbuilt == 0 - 1

Idle == [op |-> "none", id |-> UnknownId, pc |-> "none", h |-> NoHandle,
         res |-> "none", sent |-> FALSE, snap |-> {}, todo |-> {}]

\* ---- helpers -----------------------------------------------------------

\* SearchProcess.is_alive: process.poll() is None
IsAlive(h) == h # NoHandle /\ proc[h] = "alive"

Exited(h) == proc[h] \in {"exit0", "exitN"}

\* tracked ids whose process is alive
AliveTracked == {i \in Ids : IsAlive(processes[i])}

\* tracked ids whose process is not alive
DeadTracked == {i \in Ids : processes[i] # NoHandle /\ ~IsAlive(processes[i])}

Tracked == {i \in Ids : processes[i] # NoHandle}

Built == {h \in Handles : hsearch[h] # Unbuilt}

NextHandle == Cardinality(Built) + 1

\* Database.update_search_status: the row's status is set; pid only when given
UpdateStatus(st, p, id, newStatus, newPid) ==
    IF id \in DbIds
    THEN <<[st EXCEPT ![id] = newStatus],
           IF newPid # NoPid THEN [p EXCEPT ![id] = newPid] ELSE p>>
    ELSE <<st, p>>

\* the rules documents: the one named by MANAGER_RULES_PATH and
\* DEFAULT_RULES_PATH
Paths == {"override", "default"}
NoPath == "none"
NoMtime == 0                     \* None: no modification time
Callers == 1..NumCallers

\* a DomainClassifier is given by the Rules it was built with: the document
\* they were loaded from and the modification time this content was written at
NoClassifier == [path |-> NoPath, version |-> NoMtime]

\* a caller that is not inside get_classifier
NoCall == [pc |-> "idle", path |-> NoPath, mtime |-> NoMtime,
           must_reload |-> FALSE]

\* no get_classifier call returned in this step
NoGRet == [caller |-> 0, val |-> "none"]
NoRules == [keywords |-> <<>>, tlds |-> <<>>, thresholds |-> <<>>]

\* no ProcessManager call returned in this step
NoRet == [op |-> "none", id |-> UnknownId, val |-> "none", active |-> {}]

Release(op, id, val) ==
    /\ lock' = FALSE
    /\ mgr' = Idle
    /\ ret' = [op |-> op, id |-> id, val |-> val, active |-> {}]

\* the state after the manager, the handles and the module-level cache exist
Constructed ==
    /\ processes = [i \in Ids |-> NoHandle]
    /\ lock = FALSE
    /\ mgr = Idle
    /\ ret = NoRet
    /\ hsearch = [h \in Handles |-> Unbuilt]
    /\ proc = [h \in Handles |-> "none"]
    /\ running = [h \in Handles |-> FALSE]
    /\ thread = [h \in Handles |-> "none"]
    /\ sigterm = [h \in Handles |-> FALSE]
    /\ sigkill = [h \in Handles |-> FALSE]
    /\ status = [i \in DbIds |-> "stopped"]
    /\ pid = [i \in DbIds |-> NoPid]
    /\ emitted = <<>>
    /\ rpos = 0
    /\ rpc = "next"
    /\ cur = <<>>
    /\ cls = "unset"
    /\ offered = <<>>
    /\ results = <<>>
    /\ files = [p \in Paths |-> [exists |-> TRUE, mtime |-> 1, ok |-> TRUE]]
    /\ now = 1
    /\ cached_classifier = NoClassifier
    /\ cached_rules_path = NoPath
    /\ cached_mtime = NoMtime
    /\ classifier_lock = 0
    /\ gc = [c \in Callers |-> NoCall]
    /\ gret = NoGRet
    /\ hcls = [c \in Callers |-> NoClassifier]
    /\ used = NoClassifier

\* no classifier under study
Init ==
    /\ Constructed
    /\ krules = NoRules
    /\ kdomain = <<>>
    /\ kout = <<>>
    /\ dist_a = <<>>
    /\ dist_b = <<>>
    /\ dist_out = <<>>

\* ---- operating system: the external certpatrol process ------------------

\* The process terminates (on its own, or in response to a signal).  A
\* process that received SIGKILL cannot report exit code 0.
ProcExit(h) ==
    /\ proc[h] = "alive"
    /\ \E code \in {"exit0", "exitN"} :
          /\ sigkill[h] => code = "exitN"
          /\ proc' = [proc EXCEPT ![h] = code]
    /\ sigterm' = [sigterm EXCEPT ![h] = FALSE]
    /\ sigkill' = [sigkill EXCEPT ![h] = FALSE]
    /\ ret' = NoRet
    /\ UNCHANGED <<processes, lock, mgr, hsearch, running, thread, status, pid>>
    /\ UNCHANGED rvars
    /\ UNCHANGED cvars
    /\ UNCHANGED kvars

\* ---- SearchProcess._read_output (one thread per started handle) ---------

\* variant: the exit code is not looked at
ReaderStateIgnoresCode(h) == "stopped"

\* the exit code decides the state the reader reports
ReaderState(h) == IF proc[h] = "exit0" THEN "stopped" ELSE "crashed"

\* The loop over self.process.stdout ends: at end of stream, which the
\* model places at the exit of the process, or by `if not self.running:
\* break` on a line left in the pipe (running is cleared by stop only after
\* the process has exited).  exit_code = self.process.wait() then returns
\* at once; self.running = False
ReaderEof(h) ==
    /\ thread[h] = "loop"
    /\ Exited(h)
    /\ running' = [running EXCEPT ![h] = FALSE]
    /\ thread' = [thread EXCEPT ![h] = "report"]
    /\ ret' = NoRet
    /\ UNCHANGED <<processes, lock, mgr, hsearch, proc,
                   sigterm, sigkill, status, pid>>
    /\ UNCHANGED rvars
    /\ UNCHANGED cvars
    /\ UNCHANGED kvars

\* variant: the reader restarts a process that ended with a non-zero code
ReaderReportRespawns(h) ==
    /\ thread[h] = "report"
    /\ LET upd == UpdateStatus(status, pid, hsearch[h], ReaderState(h), NoPid)
       IN  status' = upd[1] /\ pid' = upd[2]
    /\ IF proc[h] = "exitN"
       THEN /\ proc' = [proc EXCEPT ![h] = "alive"]
            /\ thread' = [thread EXCEPT ![h] = "loop"]
            /\ running' = [running EXCEPT ![h] = TRUE]
       ELSE /\ thread' = [thread EXCEPT ![h] = "done"]
            /\ UNCHANGED <<proc, running>>
    /\ ret' = NoRet
    /\ UNCHANGED <<processes, lock, mgr, hsearch, sigterm, sigkill>>
    /\ UNCHANGED rvars
    /\ UNCHANGED cvars
    /\ UNCHANGED kvars

\* db.update_search_status(search_id, "stopped" | "crashed", None)
ReaderReport(h) ==
    /\ thread[h] = "report"
    /\ LET upd == UpdateStatus(status, pid, hsearch[h], ReaderState(h), NoPid)
       IN  status' = upd[1] /\ pid' = upd[2]
    /\ thread' = [thread EXCEPT ![h] = "done"]
    /\ ret' = NoRet
    /\ UNCHANGED <<processes, lock, mgr, hsearch, proc, running,
                   sigterm, sigkill>>
    /\ UNCHANGED rvars
    /\ UNCHANGED cvars
    /\ UNCHANGED kvars

\* an exception escapes the try block while the loop runs (for instance an
\* undecodable line); except Exception: self.running = False;
\* update_search_status("crashed", None)
ReaderFail(h) ==
    /\ thread[h] = "loop"
    /\ running' = [running EXCEPT ![h] = FALSE]
    /\ LET upd == UpdateStatus(status, pid, hsearch[h], "crashed", NoPid)
       IN  status' = upd[1] /\ pid' = upd[2]
    /\ thread' = [thread EXCEPT ![h] = "failed"]
    /\ ret' = NoRet
    /\ UNCHANGED <<processes, lock, mgr, hsearch, proc, sigterm, sigkill>>
    /\ UNCHANGED rvars
    /\ UNCHANGED cvars
    /\ UNCHANGED kvars

\* ---- ProcessManager.start_search ----------------------------------------

\* variant: the already-running path stores status "running" again
StartAlreadyRewritesStatus(id) ==
    /\ ~lock
    /\ IsAlive(processes[id])
    /\ ret' = [op |-> "start", id |-> id, val |-> "False", active |-> {}]
    /\ status' = [status EXCEPT ![id] = "running"]
    /\ UNCHANGED <<processes, lock, mgr, hvars, pid>>
    /\ UNCHANGED rvars
    /\ UNCHANGED cvars
    /\ UNCHANGED kvars

\* with self.lock: the entry exists and is alive -> return False
StartAlready(id) ==
    /\ ~lock
    /\ IsAlive(processes[id])
    /\ ret' = [op |-> "start", id |-> id, val |-> "False", active |-> {}]
    /\ UNCHANGED <<processes, lock, mgr, hvars, dbvars>>
    /\ UNCHANGED rvars
    /\ UNCHANGED cvars
    /\ UNCHANGED kvars

\* a further SearchProcess can be built, or the call can end without one
CanStart(id) ==
    \/ NextHandle <= MaxHandles
    \/ id \notin DbIds
    \/ Cardinality(AliveTracked) >= MAX_CONCURRENT_SEARCHES

\* with self.lock: the entry is absent or dead; the count of alive entries
\* begins (each is_alive() of the count polls its process at or after now)
StartBegin(id) ==
    /\ ~lock
    /\ ~IsAlive(processes[id])
    /\ CanStart(id)
    /\ lock' = TRUE
    /\ mgr' = [Idle EXCEPT !.op = "start", !.id = id, !.pc = "count",
                           !.snap = AliveTracked]
    /\ ret' = NoRet
    /\ UNCHANGED <<processes, hvars, dbvars>>
    /\ UNCHANGED rvars
    /\ UNCHANGED cvars
    /\ UNCHANGED kvars

\* variant: the comparison with the ceiling is strict
AtCeilingOffByOne(active_count) == active_count > MAX_CONCURRENT_SEARCHES

\* variant: the ceiling is not enforced
AtCeilingNever(active_count) == FALSE

\* the ceiling test of start_search on the counted number of alive entries
AtCeiling(active_count) == active_count >= MAX_CONCURRENT_SEARCHES

\* active_count >= MAX_CONCURRENT_SEARCHES -> raise
StartCapacity ==
    /\ mgr.op = "start" /\ mgr.pc = "count"
    /\ \E S \in SUBSET mgr.snap :
          /\ AliveTracked \subseteq S
          /\ AtCeiling(Cardinality(S))
    /\ Release("start", mgr.id, "CapacityExceeded")
    /\ UNCHANGED <<processes, hvars, dbvars>>
    /\ UNCHANGED rvars
    /\ UNCHANGED cvars
    /\ UNCHANGED kvars

\* db.get_search(search_id) returned None -> raise
StartNotFound ==
    /\ mgr.op = "start" /\ mgr.pc = "count"
    /\ \E S \in SUBSET mgr.snap :
          /\ AliveTracked \subseteq S
          /\ ~AtCeiling(Cardinality(S))
    /\ mgr.id \notin DbIds
    /\ Release("start", mgr.id, "NotFound")
    /\ UNCHANGED <<processes, hvars, dbvars>>
    /\ UNCHANGED rvars
    /\ UNCHANGED cvars
    /\ UNCHANGED kvars

\* variant: the reader thread is started and the status is left for later
StartSpawnReaderFirst ==
    /\ mgr.op = "start" /\ mgr.pc = "count"
    /\ NextHandle <= MaxHandles
    /\ \E S \in SUBSET mgr.snap :
          /\ AliveTracked \subseteq S
          /\ ~AtCeiling(Cardinality(S))
    /\ mgr.id \in DbIds
    /\ LET h == NextHandle
       IN  /\ hsearch' = [hsearch EXCEPT ![h] = mgr.id]
           /\ proc' = [proc EXCEPT ![h] = "alive"]
           /\ running' = [running EXCEPT ![h] = TRUE]
           /\ thread' = [thread EXCEPT ![h] = "loop"]
           /\ mgr' = [mgr EXCEPT !.pc = "insert", !.h = h]
    /\ ret' = NoRet
    /\ UNCHANGED <<processes, lock, sigterm, sigkill, status, pid>>
    /\ UNCHANGED rvars
    /\ UNCHANGED cvars
    /\ UNCHANGED kvars

\* SearchProcess(...).start(): Popen succeeded; running = True; status
\* "running" with the pid is stored; the reader thread is started
StartSpawn ==
    /\ mgr.op = "start" /\ mgr.pc = "count"
    /\ NextHandle <= MaxHandles
    /\ \E S \in SUBSET mgr.snap :
          /\ AliveTracked \subseteq S
          /\ ~AtCeiling(Cardinality(S))
    /\ mgr.id \in DbIds
    /\ LET h == NextHandle
           upd == UpdateStatus(status, pid, mgr.id, "running", h)
       IN  /\ hsearch' = [hsearch EXCEPT ![h] = mgr.id]
           /\ proc' = [proc EXCEPT ![h] = "alive"]
           /\ running' = [running EXCEPT ![h] = TRUE]
           /\ thread' = [thread EXCEPT ![h] = "loop"]
           /\ status' = upd[1] /\ pid' = upd[2]
           /\ mgr' = [mgr EXCEPT !.pc = "insert", !.h = h]
    /\ ret' = NoRet
    /\ UNCHANGED <<processes, lock, sigterm, sigkill>>
    /\ UNCHANGED rvars
    /\ UNCHANGED cvars
    /\ UNCHANGED kvars

\* variant: the handle is put into the registry before it is started
StartSpawnFailInserts ==
    /\ mgr.op = "start" /\ mgr.pc = "count"
    /\ NextHandle <= MaxHandles
    /\ \E S \in SUBSET mgr.snap :
          /\ AliveTracked \subseteq S
          /\ ~AtCeiling(Cardinality(S))
    /\ mgr.id \in DbIds
    /\ LET h == NextHandle
           upd == UpdateStatus(status, pid, mgr.id, "crashed", NoPid)
       IN  /\ hsearch' = [hsearch EXCEPT ![h] = mgr.id]
           /\ status' = upd[1] /\ pid' = upd[2]
           /\ processes' = [processes EXCEPT ![mgr.id] = h]
    /\ Release("start", mgr.id, "SpawnError")
    /\ UNCHANGED <<proc, running, thread, sigterm, sigkill>>
    /\ UNCHANGED rvars
    /\ UNCHANGED cvars
    /\ UNCHANGED kvars

\* SearchProcess(...).start(): Popen raised; status "crashed" is stored and
\* the exception propagates out of start_search
StartSpawnFail ==
    /\ mgr.op = "start" /\ mgr.pc = "count"
    /\ NextHandle <= MaxHandles
    /\ \E S \in SUBSET mgr.snap :
          /\ AliveTracked \subseteq S
          /\ ~AtCeiling(Cardinality(S))
    /\ mgr.id \in DbIds
    /\ LET h == NextHandle
           upd == UpdateStatus(status, pid, mgr.id, "crashed", NoPid)
       IN  /\ hsearch' = [hsearch EXCEPT ![h] = mgr.id]
           /\ status' = upd[1] /\ pid' = upd[2]
    /\ Release("start", mgr.id, "SpawnError")
    /\ UNCHANGED <<processes, proc, running, thread, sigterm, sigkill>>
    /\ UNCHANGED rvars
    /\ UNCHANGED cvars
    /\ UNCHANGED kvars

\* self.processes[search_id] = process; return True
StartInsert ==
    /\ mgr.op = "start" /\ mgr.pc = "insert"
    /\ processes' = [processes EXCEPT ![mgr.id] = mgr.h]
    /\ Release("start", mgr.id, "True")
    /\ UNCHANGED <<hvars, dbvars>>
    /\ UNCHANGED rvars
    /\ UNCHANGED cvars
    /\ UNCHANGED kvars

\* ---- SearchProcess.stop (called by stop_search and by stop_all) ---------

\* where the caller continues once SearchProcess.stop has returned
AfterStop == IF mgr.op = "stop" THEN "evict" ELSE "next"

\* variant: the running flag is not tested and the signal is sent anyway
HStopNotRunningSignals ==
    /\ mgr.pc = "hstop"
    /\ ~running[mgr.h] \/ proc[mgr.h] = "none"
    /\ sigterm' = [sigterm EXCEPT ![mgr.h] = (@ \/ proc[mgr.h] = "alive")]
    /\ mgr' = [mgr EXCEPT !.pc = "wait"]
    /\ ret' = NoRet
    /\ UNCHANGED <<processes, lock, hsearch, proc, running, thread,
                   sigkill, dbvars>>
    /\ UNCHANGED rvars
    /\ UNCHANGED cvars
    /\ UNCHANGED kvars

\* if not self.running or not self.process: return False
HStopNotRunning ==
    /\ mgr.pc = "hstop"
    /\ ~running[mgr.h] \/ proc[mgr.h] = "none"
    /\ mgr' = [mgr EXCEPT !.pc = AfterStop, !.res = "False"]
    /\ ret' = NoRet
    /\ UNCHANGED <<processes, lock, hvars, dbvars>>
    /\ UNCHANGED rvars
    /\ UNCHANGED cvars
    /\ UNCHANGED kvars

\* self.process.send_signal(SIGTERM): delivered unless the process is gone
\* (mgr.sent records whether this call delivered it)
HStopSignal ==
    /\ mgr.pc = "hstop"
    /\ running[mgr.h] /\ proc[mgr.h] # "none"
    /\ sigterm' = [sigterm EXCEPT ![mgr.h] = (@ \/ proc[mgr.h] = "alive")]
    /\ mgr' = [mgr EXCEPT !.pc = "wait", !.sent = (proc[mgr.h] = "alive")]
    /\ ret' = NoRet
    /\ UNCHANGED <<processes, lock, hsearch, proc, running, thread,
                   sigkill, dbvars>>
    /\ UNCHANGED rvars
    /\ UNCHANGED cvars
    /\ UNCHANGED kvars

\* an unexpected OS failure inside the try block: stop raises.  stop_search
\* lets it propagate (the with block releases the lock); stop_all prints it
\* and goes on with the next entry.
HStopSignalFail ==
    /\ mgr.pc = "hstop"
    /\ running[mgr.h] /\ proc[mgr.h] # "none"
    /\ IF mgr.op = "stop"
       THEN Release("stop", mgr.id, "StopError")
       ELSE /\ mgr' = [mgr EXCEPT !.pc = "next", !.res = "StopError"]
            /\ ret' = NoRet
            /\ UNCHANGED lock
    /\ UNCHANGED <<processes, hvars, dbvars>>
    /\ UNCHANGED rvars
    /\ UNCHANGED cvars
    /\ UNCHANGED kvars

\* self.process.wait(timeout=10), or self.process.wait() after the kill,
\* returns: the process has exited
HStopWaited ==
    /\ mgr.pc = "wait"
    /\ Exited(mgr.h)
    /\ mgr' = [mgr EXCEPT !.pc = "mark"]
    /\ ret' = NoRet
    /\ UNCHANGED <<processes, lock, hvars, dbvars>>
    /\ UNCHANGED rvars
    /\ UNCHANGED cvars
    /\ UNCHANGED kvars

\* variant: when the grace period ends the stop gives up on the process
\* instead of killing it
HStopTimeoutGivesUp ==
    /\ mgr.pc = "wait"
    /\ proc[mgr.h] = "alive" /\ ~sigkill[mgr.h]
    /\ mgr' = [mgr EXCEPT !.pc = "mark"]
    /\ ret' = NoRet
    /\ UNCHANGED <<processes, lock, hvars, dbvars>>
    /\ UNCHANGED rvars
    /\ UNCHANGED cvars
    /\ UNCHANGED kvars

\* variant: when the grace period ends the stop keeps waiting for the
\* process without killing it
HStopTimeoutKeepsWaiting ==
    /\ mgr.pc = "wait"
    /\ proc[mgr.h] = "alive"
    /\ ~sigkill[mgr.h]
    /\ ret' = NoRet
    /\ UNCHANGED <<processes, lock, mgr, hvars, dbvars>>
    /\ UNCHANGED rvars
    /\ UNCHANGED cvars
    /\ UNCHANGED kvars

\* TimeoutExpired: the process is still alive after the grace period;
\* self.process.kill(); self.process.wait() begins
HStopTimeout ==
    /\ mgr.pc = "wait"
    /\ proc[mgr.h] = "alive"
    /\ ~sigkill[mgr.h]
    /\ sigkill' = [sigkill EXCEPT ![mgr.h] = TRUE]
    /\ ret' = NoRet
    /\ UNCHANGED <<processes, lock, mgr, hsearch, proc, running, thread,
                   sigterm, dbvars>>
    /\ UNCHANGED rvars
    /\ UNCHANGED cvars
    /\ UNCHANGED kvars

\* variant: the stop reports by exit code, as the reader does
HStopMarkByExitCode ==
    /\ mgr.pc = "mark"
    /\ running' = [running EXCEPT ![mgr.h] = FALSE]
    /\ LET st == IF proc[mgr.h] = "exit0" THEN "stopped" ELSE "crashed"
           upd == UpdateStatus(status, pid, hsearch[mgr.h], st, NoPid)
       IN  /\ status' = upd[1] /\ pid' = upd[2]
           /\ mgr' = [mgr EXCEPT !.pc = AfterStop,
                                 !.res = IF st = "stopped" THEN "True"
                                         ELSE "StopError"]
    /\ ret' = NoRet
    /\ UNCHANGED <<processes, lock, hsearch, proc, thread, sigterm, sigkill>>
    /\ UNCHANGED rvars
    /\ UNCHANGED cvars
    /\ UNCHANGED kvars

\* self.running = False; update_search_status("stopped", None); return True
HStopMark ==
    /\ mgr.pc = "mark"
    /\ running' = [running EXCEPT ![mgr.h] = FALSE]
    /\ LET upd == UpdateStatus(status, pid, hsearch[mgr.h], "stopped", NoPid)
       IN  status' = upd[1] /\ pid' = upd[2]
    /\ mgr' = [mgr EXCEPT !.pc = AfterStop, !.res = "True"]
    /\ ret' = NoRet
    /\ UNCHANGED <<processes, lock, hsearch, proc, thread, sigterm, sigkill>>
    /\ UNCHANGED rvars
    /\ UNCHANGED cvars
    /\ UNCHANGED kvars

\* ---- ProcessManager.stop_search -----------------------------------------

\* variant: an untracked id is marked stopped in the store all the same
StopUnknownMarksStopped(id) ==
    /\ ~lock
    /\ processes[id] = NoHandle
    /\ ret' = [op |-> "stop", id |-> id, val |-> "False", active |-> {}]
    /\ status' = UpdateStatus(status, pid, id, "stopped", NoPid)[1]
    /\ UNCHANGED <<processes, lock, mgr, hvars, pid>>
    /\ UNCHANGED rvars
    /\ UNCHANGED cvars
    /\ UNCHANGED kvars

\* with self.lock: if search_id not in self.processes: return False
StopUnknown(id) ==
    /\ ~lock
    /\ processes[id] = NoHandle
    /\ ret' = [op |-> "stop", id |-> id, val |-> "False", active |-> {}]
    /\ UNCHANGED <<processes, lock, mgr, hvars, dbvars>>
    /\ UNCHANGED rvars
    /\ UNCHANGED cvars
    /\ UNCHANGED kvars

\* variant: the handle is looked up under the lock and stopped outside it
StopBeginUnlocked(id) ==
    /\ ~lock
    /\ processes[id] # NoHandle
    /\ lock' = FALSE
    /\ mgr' = [Idle EXCEPT !.op = "stop", !.id = id, !.pc = "hstop",
                           !.h = processes[id]]
    /\ ret' = NoRet
    /\ UNCHANGED <<processes, hvars, dbvars>>
    /\ UNCHANGED rvars
    /\ UNCHANGED cvars
    /\ UNCHANGED kvars

\* with self.lock: process = self.processes[search_id]; process.stop()
StopBegin(id) ==
    /\ ~lock
    /\ processes[id] # NoHandle
    /\ lock' = TRUE
    /\ mgr' = [Idle EXCEPT !.op = "stop", !.id = id, !.pc = "hstop",
                           !.h = processes[id]]
    /\ ret' = NoRet
    /\ UNCHANGED <<processes, hvars, dbvars>>
    /\ UNCHANGED rvars
    /\ UNCHANGED cvars
    /\ UNCHANGED kvars

\* the registry after stop_search's `if not process.is_alive(): del ...`
Evicted(id, h) ==
    IF ~IsAlive(h) THEN [processes EXCEPT ![id] = NoHandle] ELSE processes

\* if not process.is_alive(): del self.processes[search_id]; return result
StopEvict ==
    /\ mgr.op = "stop" /\ mgr.pc = "evict"
    /\ processes' = Evicted(mgr.id, mgr.h)
    /\ Release("stop", mgr.id, mgr.res)
    /\ UNCHANGED <<hvars, dbvars>>
    /\ UNCHANGED rvars
    /\ UNCHANGED cvars
    /\ UNCHANGED kvars

\* ---- ProcessManager.get_status ------------------------------------------

\* variant: a tracked entry whose process is dead reports the stored status
StatusOfStoredWhenDead(id) ==
    IF processes[id] # NoHandle /\ IsAlive(processes[id]) THEN "running"
    ELSE IF id \in DbIds THEN status[id]
    ELSE "None"

StatusOf(id) ==
    IF processes[id] # NoHandle
    THEN (IF IsAlive(processes[id]) THEN "running" ELSE "stopped")
    ELSE (IF id \in DbIds THEN status[id] ELSE "None")

GetStatus(id) ==
    /\ ~lock
    /\ ret' = [op |-> "status", id |-> id, val |-> StatusOf(id), active |-> {}]
    /\ UNCHANGED <<processes, lock, mgr, hvars, dbvars>>
    /\ UNCHANGED rvars
    /\ UNCHANGED cvars
    /\ UNCHANGED kvars

\* ---- ProcessManager.list_active_searches --------------------------------

\* with self.lock: the loop over self.processes begins
ListBegin ==
    /\ ~lock
    /\ lock' = TRUE
    /\ mgr' = [Idle EXCEPT !.op = "list", !.pc = "list", !.snap = AliveTracked]
    /\ ret' = NoRet
    /\ UNCHANGED <<processes, hvars, dbvars>>
    /\ UNCHANGED rvars
    /\ UNCHANGED cvars
    /\ UNCHANGED kvars

\* every entry found alive by its poll, and present in the database, is listed
ListEnd ==
    /\ mgr.op = "list" /\ mgr.pc = "list"
    /\ \E S \in SUBSET mgr.snap :
          /\ AliveTracked \subseteq S
          /\ lock' = FALSE
          /\ mgr' = Idle
          /\ ret' = [op |-> "list", id |-> UnknownId, val |-> "None",
                     active |-> S \cap DbIds]
    /\ UNCHANGED <<processes, hvars, dbvars>>
    /\ UNCHANGED rvars
    /\ UNCHANGED cvars
    /\ UNCHANGED kvars

\* ---- ProcessManager.cleanup_dead_processes ------------------------------

\* with self.lock: the scan for dead entries begins
SweepBegin ==
    /\ ~lock
    /\ lock' = TRUE
    /\ mgr' = [Idle EXCEPT !.op = "sweep", !.pc = "sweep", !.snap = DeadTracked]
    /\ ret' = NoRet
    /\ UNCHANGED <<processes, hvars, dbvars>>
    /\ UNCHANGED rvars
    /\ UNCHANGED cvars
    /\ UNCHANGED kvars

\* variant: the sweep drops every entry it scanned
SweptAll(dead) == [i \in Ids |-> NoHandle]

\* the registry once the entries in `dead` are deleted
Swept(dead) == [i \in Ids |-> IF i \in dead THEN NoHandle ELSE processes[i]]

\* dead = [entries whose poll found them not alive]; del each of them
SweepEnd ==
    /\ mgr.op = "sweep" /\ mgr.pc = "sweep"
    /\ \E S \in SUBSET DeadTracked :
          /\ mgr.snap \subseteq S
          /\ processes' = Swept(S)
    /\ Release("sweep", UnknownId, "None")
    /\ UNCHANGED <<hvars, dbvars>>
    /\ UNCHANGED rvars
    /\ UNCHANGED cvars
    /\ UNCHANGED kvars

\* ---- ProcessManager.stop_all --------------------------------------------

\* with self.lock: for search_id in list(self.processes.keys())
StopAllBegin ==
    /\ ~lock
    /\ lock' = TRUE
    /\ mgr' = [Idle EXCEPT !.op = "stop_all", !.pc = "next", !.todo = Tracked]
    /\ ret' = NoRet
    /\ UNCHANGED <<processes, hvars, dbvars>>
    /\ UNCHANGED rvars
    /\ UNCHANGED cvars
    /\ UNCHANGED kvars

\* the next key of the loop: self.processes[search_id].stop()
StopAllNext ==
    /\ mgr.op = "stop_all" /\ mgr.pc = "next"
    /\ \E id \in mgr.todo :
          mgr' = [mgr EXCEPT !.pc = "hstop", !.id = id, !.h = processes[id],
                             !.sent = FALSE, !.todo = @ \ {id}]
    /\ ret' = NoRet
    /\ UNCHANGED <<processes, lock, hvars, dbvars>>
    /\ UNCHANGED rvars
    /\ UNCHANGED cvars
    /\ UNCHANGED kvars

\* the registry after stop_all's self.processes.clear()
Cleared == [i \in Ids |-> NoHandle]

\* self.processes.clear()
StopAllClear ==
    /\ mgr.op = "stop_all" /\ mgr.pc = "next"
    /\ mgr.todo = {}
    /\ processes' = Cleared
    /\ Release("stop_all", UnknownId, "None")
    /\ UNCHANGED <<hvars, dbvars>>
    /\ UNCHANGED rvars
    /\ UNCHANGED cvars
    /\ UNCHANGED kvars

\* ---- specification ------------------------------------------------------

Next ==
    \/ \E h \in Handles : ProcExit(h)
    \/ \E h \in Handles : ReaderEof(h)
    \/ \E h \in Handles : ReaderReport(h)
    \/ \E h \in Handles : ReaderFail(h)
    \/ \E id \in Ids : StartAlready(id)
    \/ \E id \in Ids : StartBegin(id)
    \/ StartCapacity
    \/ StartNotFound
    \/ StartSpawn
    \/ StartSpawnFail
    \/ StartInsert
    \/ HStopNotRunning
    \/ HStopSignal
    \/ HStopSignalFail
    \/ HStopWaited
    \/ HStopTimeout
    \/ HStopMark
    \/ \E id \in Ids : StopUnknown(id)
    \/ \E id \in Ids : StopBegin(id)
    \/ StopEvict
    \/ \E id \in Ids : GetStatus(id)
    \/ ListBegin
    \/ ListEnd
    \/ SweepBegin
    \/ SweepEnd
    \/ StopAllBegin
    \/ StopAllNext
    \/ StopAllClear

Spec == Init /\ [][Next]_vars

TypeOK ==
    /\ processes \in [Ids -> {NoHandle} \cup Handles]
    /\ lock \in BOOLEAN
    /\ hsearch \in [Handles -> {Unbuilt} \cup Ids]
    /\ proc \in [Handles -> {"none", "alive", "exit0", "exitN"}]
    /\ running \in [Handles -> BOOLEAN]
    /\ thread \in [Handles -> {"none", "loop", "report", "done", "failed"}]
    /\ status \in [DbIds -> {"stopped", "running", "crashed"}]
    /\ pid \in [DbIds -> {NoPid} \cup Handles]

\* ---- text: lines of the output stream ------------------------------------

\* A line is the sequence of its characters, a character a one-letter string.

\* str.strip() removes these from both ends
Whitespace == {" ", "\t", "\n", "\r", "\f"}

RECURSIVE LStrip(_)
LStrip(s) ==
    IF s # <<>> /\ Head(s) \in Whitespace THEN LStrip(Tail(s)) ELSE s

RECURSIVE RStrip(_)
RStrip(s) ==
    IF s # <<>> /\ s[Len(s)] \in Whitespace
    THEN RStrip(SubSeq(s, 1, Len(s) - 1)) ELSE s

\* line.strip()
Strip(s) == RStrip(LStrip(s))

UpperCase ==
    <<"A", "B", "C", "D", "E", "F", "G", "H", "I", "J", "K", "L", "M", "N",
      "O", "P", "Q", "R", "S", "T", "U", "V", "W", "X", "Y", "Z">>

LowerCase ==
    <<"a", "b", "c", "d", "e", "f", "g", "h", "i", "j", "k", "l", "m", "n",
      "o", "p", "q", "r", "s", "t", "u", "v", "w", "x", "y", "z">>

LowerChar(c) ==
    IF \E i \in 1..Len(UpperCase) : UpperCase[i] = c
    THEN LowerCase[CHOOSE i \in 1..Len(UpperCase) : UpperCase[i] = c]
    ELSE c

\* str.lower()
Lower(s) == [i \in 1..Len(s) |-> LowerChar(s[i])]

\* `p in s` for strings
Contains(s, p) ==
    \E i \in 0..(Len(s) - Len(p)) : SubSeq(s, i + 1, i + Len(p)) = p

\* the status messages of certpatrol that are not domains
skip_patterns ==
    <<<<"C", "h", "e", "c", "k", "p", "o", "i", "n", "t", "s", " ", "s", "a",
        "v", "e", "d">>,
      <<"R", "e", "c", "e", "i", "v", "e", "d", " ", "S", "I", "G", "T", "E",
        "R", "M">>,
      <<"G", "r", "a", "c", "e", "f", "u", "l", " ", "s", "h", "u", "t", "d",
        "o", "w", "n">>,
      <<"s", "h", "u", "t", "d", "o", "w", "n">>,
      <<"T", "a", "i", "l", "i", "n", "g", " ", "l", "o", "g", "s">>,
      <<"P", "a", "t", "t", "e", "r", "n", ":">>,
      <<"B", "a", "t", "c", "h", " ", "s", "i", "z", "e", ":">>,
      <<"i", "n", "i", "t", "i", "a", "t", "i", "n", "g">>>>

\* lines the external process may write
LineSamples ==
    {<<"a", ".", "i", "o", "\n">>,
     <<"\n">>,
     <<" ", "B", ".", "i", "o", " ", "\n">>,
     <<"a", "b", "\n">>,
     <<"a", " ", "b", ".", "i", "o", "\n">>,
     <<"a", ".", "b", "\t", "c", "\n">>,
     <<"S", "H", "U", "T", "D", "O", "W", "N", ".", "i", "o", "\n">>}

\* ---- SearchProcess._read_output: the loop body ---------------------------

\* The output stream and the loop body are followed for one SearchProcess,
\* the first one constructed.
RH == 1

\* any(pattern.lower() in domain.lower() for pattern in skip_patterns)
Skipped(domain) ==
    \E k \in 1..Len(skip_patterns) :
        Contains(Lower(domain), Lower(skip_patterns[k]))

\* not ('.' not in domain or ' ' in domain)
ValidDomain(domain) == Contains(domain, <<".">>) /\ ~Contains(domain, <<" ">>)

\* the line passes the three `continue` tests of the loop body
Accepted(line) ==
    LET domain == Strip(line)
    IN  domain # <<>> /\ ~Skipped(domain) /\ ValidDomain(domain)

\* a classification field as passed on: the classifier's value, or None
Field(c) == IF c = "record" THEN "value" ELSE "None"

\* db.add_result(self.search_id, domain, score=..., risk_level=...,
\* matched_keyword=..., matched_tld=..., classification=...); `line` notes
\* which line of the stream the call is made for
AddResultCall(line, domain, c) ==
    [line |-> line,
     args |-> <<hsearch[RH], domain>>,
     kw   |-> [score |-> Field(c), risk_level |-> Field(c),
               matched_keyword |-> Field(c), matched_tld |-> Field(c),
               classification |-> Field(c)]]

\* def add_result(self, search_id: int, domain: str)
AddResultParams == {"search_id", "domain"}

\* a call with a keyword that is not a parameter raises TypeError
AddResultRaises(call) == ~(DOMAIN call.kw \subseteq AddResultParams)

\* Database.add_result: session.add(Result(search_id=..., domain=...))
AddResult(rows, call) ==
    IF AddResultRaises(call) THEN rows
    ELSE Append(rows, [line |-> call.line, search_id |-> call.args[1],
                       domain |-> call.args[2]])

\* variant: the call is recorded ahead of the earlier ones
OfferFirst(calls, call) == <<call>> \o calls

\* the reader makes the call after all its earlier calls
Offer(calls, call) == Append(calls, call)

\* the process writes a line to its stdout
Emit(l) ==
    /\ proc[RH] = "alive"
    /\ Len(emitted) < MaxLines
    /\ emitted' = Append(emitted, l)
    /\ ret' = NoRet
    /\ UNCHANGED <<processes, lock, mgr, hvars, dbvars>>
    /\ UNCHANGED <<rpos, rpc, cur, cls, offered, results>>
    /\ UNCHANGED cvars
    /\ UNCHANGED kvars

\* the loop has a next line to take
HasLine == thread[RH] = "loop" /\ rpc = "next" /\ rpos < Len(emitted)

\* if not self.running: break
RdBreak ==
    /\ HasLine
    /\ ~running[RH]
    /\ rpos' = rpos + 1
    /\ rpc' = "break"
    /\ ret' = NoRet
    /\ UNCHANGED <<processes, lock, mgr, hvars, dbvars>>
    /\ UNCHANGED <<emitted, cur, cls, offered, results>>
    /\ UNCHANGED cvars
    /\ UNCHANGED kvars

\* one of the three `continue` statements: the line is dropped
RdSkip ==
    /\ HasLine
    /\ running[RH]
    /\ ~Accepted(emitted[rpos + 1])
    /\ rpos' = rpos + 1
    /\ ret' = NoRet
    /\ UNCHANGED <<processes, lock, mgr, hvars, dbvars>>
    /\ UNCHANGED <<emitted, rpc, cur, cls, offered, results>>
    /\ UNCHANGED cvars
    /\ UNCHANGED kvars

\* domain = line.strip() passed the tests; classification = None
RdAccept ==
    /\ HasLine
    /\ running[RH]
    /\ Accepted(emitted[rpos + 1])
    /\ rpos' = rpos + 1
    /\ cur' = Strip(emitted[rpos + 1])
    /\ cls' = "None"
    /\ rpc' = "classify"
    /\ ret' = NoRet
    /\ UNCHANGED <<processes, lock, mgr, hvars, dbvars>>
    /\ UNCHANGED <<emitted, offered, results>>
    /\ UNCHANGED cvars
    /\ UNCHANGED kvars

\* classification = self.classifier.classify(domain)
RdClassify ==
    /\ rpc = "classify"
    /\ cls' = "record"
    /\ rpc' = "save"
    /\ ret' = NoRet
    /\ UNCHANGED <<processes, lock, mgr, hvars, dbvars>>
    /\ UNCHANGED <<emitted, rpos, cur, offered, results>>
    /\ UNCHANGED cvars
    /\ UNCHANGED kvars

\* classify raised: the error is printed, classification stays None
RdClassifyFail ==
    /\ rpc = "classify"
    /\ rpc' = "save"
    /\ ret' = NoRet
    /\ UNCHANGED <<processes, lock, mgr, hvars, dbvars>>
    /\ UNCHANGED <<emitted, rpos, cur, cls, offered, results>>
    /\ UNCHANGED cvars
    /\ UNCHANGED kvars

\* variant: an exception of add_result ends the loop through the outer
\* except clause
RdSaveAborts ==
    /\ rpc = "save"
    /\ LET call == AddResultCall(rpos, cur, cls)
       IN  /\ offered' = Offer(offered, call)
           /\ results' = AddResult(results, call)
           /\ IF AddResultRaises(call)
              THEN /\ running' = [running EXCEPT ![RH] = FALSE]
                   /\ thread' = [thread EXCEPT ![RH] = "failed"]
                   /\ status' = UpdateStatus(status, pid, hsearch[RH],
                                             "crashed", NoPid)[1]
              ELSE UNCHANGED <<running, thread, status>>
    /\ rpc' = "next"
    /\ cur' = <<>>
    /\ cls' = "unset"
    /\ ret' = NoRet
    /\ UNCHANGED <<processes, lock, mgr, hsearch, proc, sigterm, sigkill, pid>>
    /\ UNCHANGED <<emitted, rpos>>
    /\ UNCHANGED cvars
    /\ UNCHANGED kvars

\* try: db.add_result(...) except Exception: print; the loop goes on
RdSave ==
    /\ rpc = "save"
    /\ LET call == AddResultCall(rpos, cur, cls)
       IN  /\ offered' = Offer(offered, call)
           /\ results' = AddResult(results, call)
    /\ rpc' = "next"
    /\ cur' = <<>>
    /\ cls' = "unset"
    /\ ret' = NoRet
    /\ UNCHANGED <<processes, lock, mgr, hvars, dbvars>>
    /\ UNCHANGED <<emitted, rpos>>
    /\ UNCHANGED cvars
    /\ UNCHANGED kvars

\* the iteration ends: the process has exited and its lines are all taken
RdEof ==
    /\ rpc = "next"
    /\ rpos = Len(emitted)
    /\ ReaderEof(RH)

\* after the break: exit_code = self.process.wait(); self.running = False
RdBroke ==
    /\ rpc = "break"
    /\ ReaderEof(RH)

\* the iteration itself raises
RdFail ==
    /\ rpc = "next"
    /\ ReaderFail(RH)

\* start_search(1), once
RdStart ==
    /\ NextHandle = RH
    /\ StartBegin(1)

ReaderNext ==
    \/ \E l \in LineSamples : Emit(l)
    \/ ProcExit(RH)
    \/ RdBreak
    \/ RdSkip
    \/ RdAccept
    \/ RdClassify
    \/ RdClassifyFail
    \/ RdSave
    \/ RdEof
    \/ RdBroke
    \/ RdFail
    \/ ReaderReport(RH)
    \/ RdStart
    \/ StartSpawn
    \/ StartSpawnFail
    \/ StartInsert
    \/ StopBegin(1)
    \/ HStopNotRunning
    \/ HStopSignal
    \/ HStopSignalFail
    \/ HStopWaited
    \/ HStopTimeout
    \/ HStopMark
    \/ StopEvict

ReaderSpec == Init /\ [][ReaderNext]_vars

ReaderTypeOK ==
    /\ emitted \in Seq(LineSamples) /\ Len(emitted) <= MaxLines
    /\ rpos \in 0..Len(emitted)
    /\ rpc \in {"next", "classify", "save", "break"}
    /\ cls \in {"unset", "None", "record"}
    /\ Len(results) <= Len(offered) /\ Len(offered) <= rpos

\* ---- classifier.get_classifier: the cache of the rules -------------------

\* the supervisor's variables
svars == <<processes, lock, mgr, ret, hsearch, proc, running, thread,
           sigterm, sigkill, status, pid>>

\* _current_rules_path, with MANAGER_RULES_PATH set: the override when it
\* exists, else DEFAULT_RULES_PATH
CurrentRulesPath == IF files["override"].exists THEN "override" ELSE "default"

\* must_reload, for the path and the modification time the caller observed
MustReload(path, mtime) ==
    \/ cached_classifier = NoClassifier
    \/ cached_rules_path # path
    \/ mtime # NoMtime /\ cached_mtime # NoMtime /\ mtime > cached_mtime

\* _load_rules_from_path succeeds: the document can be opened and parsed
Loadable(path) == files[path].exists /\ files[path].ok

\* DomainClassifier(_load_rules_from_path(path)): the rules are the content
\* the document has now
Loaded(path) == [path |-> path, version |-> files[path].mtime]

\* the rules document at p is written: new content, a later modification time
FileWrite(p, ok) ==
    /\ now < MaxMtime
    /\ now' = now + 1
    /\ files' = [files EXCEPT ![p] = [exists |-> TRUE, mtime |-> now + 1,
                                       ok |-> ok]]
    /\ gret' = NoGRet /\ used' = NoClassifier
    /\ UNCHANGED <<cached_classifier, cached_rules_path, cached_mtime,
                   classifier_lock, gc, hcls>>
    /\ UNCHANGED <<svars, rvars, kvars>>

\* the rules document at p is deleted
FileRemove(p) ==
    /\ files[p].exists
    /\ files' = [files EXCEPT ![p] = [exists |-> FALSE, mtime |-> NoMtime,
                                       ok |-> TRUE]]
    /\ gret' = NoGRet /\ used' = NoClassifier
    /\ UNCHANGED <<now, cached_classifier, cached_rules_path, cached_mtime,
                   classifier_lock, gc, hcls>>
    /\ UNCHANGED <<svars, rvars, kvars>>

\* path = _current_rules_path()
GetPath(c) ==
    /\ gc[c].pc = "idle"
    /\ gc' = [gc EXCEPT ![c] = [NoCall EXCEPT !.pc = "path",
                                              !.path = CurrentRulesPath]]
    /\ gret' = NoGRet /\ used' = NoClassifier
    /\ UNCHANGED <<files, now, cached_classifier, cached_rules_path,
                   cached_mtime, classifier_lock, hcls>>
    /\ UNCHANGED <<svars, rvars, kvars>>

\* mtime = path.stat().st_mtime if path.exists() else None
GetStat(c) ==
    /\ gc[c].pc = "path"
    /\ gc' = [gc EXCEPT ![c].pc = "stat",
                        ![c].mtime = IF files[gc[c].path].exists
                                     THEN files[gc[c].path].mtime
                                     ELSE NoMtime]
    /\ gret' = NoGRet /\ used' = NoClassifier
    /\ UNCHANGED <<files, now, cached_classifier, cached_rules_path,
                   cached_mtime, classifier_lock, hcls>>
    /\ UNCHANGED <<svars, rvars, kvars>>

\* with _classifier_lock: must_reload = (...)
GetEnter(c) ==
    /\ gc[c].pc = "stat"
    /\ classifier_lock = 0
    /\ classifier_lock' = c
    /\ gc' = [gc EXCEPT ![c].pc = "locked",
                        ![c].must_reload = MustReload(gc[c].path, gc[c].mtime)]
    /\ gret' = NoGRet /\ used' = NoClassifier
    /\ UNCHANGED <<files, now, cached_classifier, cached_rules_path,
                   cached_mtime, hcls>>
    /\ UNCHANGED <<svars, rvars, kvars>>

\* must_reload: the rules are loaded and cached with the observed path and
\* modification time; the new classifier is returned to the constructor of
\* a SearchProcess, which keeps it as self.classifier
GetReload(c) ==
    /\ gc[c].pc = "locked"
    /\ gc[c].must_reload
    /\ Loadable(gc[c].path)
    /\ cached_classifier' = Loaded(gc[c].path)
    /\ cached_rules_path' = gc[c].path
    /\ cached_mtime' = gc[c].mtime
    /\ classifier_lock' = 0
    /\ gret' = [caller |-> c, val |-> "classifier"]
    /\ hcls' = [hcls EXCEPT ![c] = Loaded(gc[c].path)]
    /\ gc' = [gc EXCEPT ![c] = NoCall]
    /\ used' = NoClassifier
    /\ UNCHANGED <<files, now>>
    /\ UNCHANGED <<svars, rvars, kvars>>

\* must_reload, and _load_rules_from_path raises (the document is gone or
\* malformed): the exception leaves the with block and get_classifier
GetReloadFail(c) ==
    /\ gc[c].pc = "locked"
    /\ gc[c].must_reload
    /\ ~Loadable(gc[c].path)
    /\ classifier_lock' = 0
    /\ gret' = [caller |-> c, val |-> "raise"]
    /\ gc' = [gc EXCEPT ![c] = NoCall]
    /\ used' = NoClassifier
    /\ UNCHANGED <<files, now, cached_classifier, cached_rules_path,
                   cached_mtime, hcls>>
    /\ UNCHANGED <<svars, rvars, kvars>>

\* not must_reload: return _cached_classifier
GetCached(c) ==
    /\ gc[c].pc = "locked"
    /\ ~gc[c].must_reload
    /\ classifier_lock' = 0
    /\ gret' = [caller |-> c, val |-> "classifier"]
    /\ hcls' = [hcls EXCEPT ![c] = cached_classifier]
    /\ gc' = [gc EXCEPT ![c] = NoCall]
    /\ used' = NoClassifier
    /\ UNCHANGED <<files, now, cached_classifier, cached_rules_path,
                   cached_mtime>>
    /\ UNCHANGED <<svars, rvars, kvars>>

\* the reader of the SearchProcess that caller c constructed classifies a
\* line: self.classifier.classify(domain)
LineClassified(c) ==
    /\ hcls[c] # NoClassifier
    /\ used' = hcls[c]
    /\ gret' = NoGRet
    /\ UNCHANGED <<files, now, cached_classifier, cached_rules_path,
                   cached_mtime, classifier_lock, gc, hcls>>
    /\ UNCHANGED <<svars, rvars, kvars>>

RulesNext ==
    \/ \E p \in Paths, ok \in BOOLEAN : FileWrite(p, ok)
    \/ \E p \in Paths : FileRemove(p)
    \/ \E c \in Callers : GetPath(c)
    \/ \E c \in Callers : GetStat(c)
    \/ \E c \in Callers : GetEnter(c)
    \/ \E c \in Callers : GetReload(c)
    \/ \E c \in Callers : GetReloadFail(c)
    \/ \E c \in Callers : GetCached(c)
    \/ \E c \in Callers : LineClassified(c)

RulesSpec == Init /\ [][RulesNext]_vars

RulesTypeOK ==
    /\ now \in 1..MaxMtime
    /\ classifier_lock \in {0} \cup Callers
    /\ cached_rules_path \in Paths \cup {NoPath}
    /\ cached_mtime \in 0..MaxMtime
    /\ \A c \in Callers :
          gc[c].pc \in {"idle", "path", "stat", "locked"}
    /\ \A c \in Callers : (classifier_lock = c) = (gc[c].pc = "locked")

\* ---- classifier.DomainClassifier: scoring one domain ----------------------

DEFAULT_THRESHOLDS == [critical |-> 100, high |-> 90, medium |-> 80, low |-> 65]

\* the rules under study, as _load_rules_from_path builds them: keywords in
\* document order with their int weights, tlds in document order, the
\* four thresholds.  A weight is whatever int(v) yields, negative included.
RuleSets ==
    { [keywords |-> << <<<<"l", "o", "g", "i", "n">>, 80>> >>,
       tlds |-> << <<"t", "k">> >>,
       thresholds |-> DEFAULT_THRESHOLDS],
      [keywords |-> << <<<<"p", "a", "y">>, 30>>, <<<<"l", "o", "g", "i", "n">>, 80>>, <<<<"g", "m", "a", "i", "l">>, 70>> >>,
       tlds |-> << <<"t", "k">>, <<"k">> >>,
       thresholds |-> [critical |-> 150, high |-> 121, medium |-> 100, low |-> 35]],
      [keywords |-> << <<<<"b", "a", "n", "k">>, -100>> >>,
       tlds |-> << <<"z", "t", "k">> >>,
       thresholds |-> DEFAULT_THRESHOLDS],
      [keywords |-> <<>>,
       tlds |-> <<>>,
       thresholds |-> DEFAULT_THRESHOLDS] }

\* the domains handed to classify:
\*   "secure-login.bank.tk"
\*   ""
\*   "nodot"
\*   "a b.tk"
\*   "*.Login.io"
\*   "logon.lagon.ztk"
\*   "com.pay.a.b.ztk"
\*   "a-b-c-d-e.tk"
\*   "xn--a-b-c-d.tk"
\*   "mail.logim.tk"
\*   "-.-"
\*   "login.login.ztk"
\*   "logins.ztk"
\*   " shop.ZTK "
\*   "aaaabbcd.io"
\*   "aabbccde.io"
\*   "logon.logim.tk"
\*   "a<TAB>b.ztk"
\*   "pay-login.gmail.tk"
Domains ==
    { <<"s", "e", "c", "u", "r", "e", "-", "l", "o", "g", "i", "n", ".", "b", "a", "n", "k", ".", "t", "k">>,
      <<>>,
      <<"n", "o", "d", "o", "t">>,
      <<"a", " ", "b", ".", "t", "k">>,
      <<"*", ".", "L", "o", "g", "i", "n", ".", "i", "o">>,
      <<"l", "o", "g", "o", "n", ".", "l", "a", "g", "o", "n", ".", "z", "t", "k">>,
      <<"c", "o", "m", ".", "p", "a", "y", ".", "a", ".", "b", ".", "z", "t", "k">>,
      <<"a", "-", "b", "-", "c", "-", "d", "-", "e", ".", "t", "k">>,
      <<"x", "n", "-", "-", "a", "-", "b", "-", "c", "-", "d", ".", "t", "k">>,
      <<"m", "a", "i", "l", ".", "l", "o", "g", "i", "m", ".", "t", "k">>,
      <<"-", ".", "-">>,
      <<"l", "o", "g", "i", "n", ".", "l", "o", "g", "i", "n", ".", "z", "t", "k">>,
      <<"l", "o", "g", "i", "n", "s", ".", "z", "t", "k">>,
      <<" ", "s", "h", "o", "p", ".", "Z", "T", "K", " ">>,
      <<"a", "a", "a", "a", "b", "b", "c", "d", ".", "i", "o">>,
      <<"a", "a", "b", "b", "c", "c", "d", "e", ".", "i", "o">>,
      <<"l", "o", "g", "o", "n", ".", "l", "o", "g", "i", "m", ".", "t", "k">>,
      <<"a", "\t", "b", ".", "z", "t", "k">>,
      <<"p", "a", "y", "-", "l", "o", "g", "i", "n", ".", "g", "m", "a", "i", "l", ".", "t", "k">> }

\* the suffixes tld.get_tld knows, as far as the domains above need them
KnownTlds == {<<"t", "k">>, <<"c", "o", "m">>, <<"i", "o">>}

\* \w of the re module for the characters that occur
WordChars ==
    {LowerCase[i] : i \in 1..Len(LowerCase)} \cup
    {UpperCase[i] : i \in 1..Len(UpperCase)} \cup
    {"0", "1", "2", "3", "4", "5", "6", "7", "8", "9", "_"}

StartsWith(s, p) == Len(s) >= Len(p) /\ SubSeq(s, 1, Len(p)) = p

\* str.endswith
EndsWith(s, p) == Len(s) >= Len(p) /\ SubSeq(s, Len(s) - Len(p) + 1, Len(s)) = p

\* str.count for one character
Count(s, ch) == Cardinality({i \in 1..Len(s) : s[i] = ch})

\* str.split(".")
RECURSIVE Labels(_)
Labels(s) ==
    IF \A i \in 1..Len(s) : s[i] # "."
    THEN <<s>>
    ELSE LET i == CHOOSE j \in 1..Len(s) :
                      s[j] = "." /\ \A k \in 1..(j - 1) : s[k] # "."
         IN <<SubSeq(s, 1, i - 1)>> \o Labels(SubSeq(s, i + 1, Len(s)))

\* ".".join
RECURSIVE Join(_)
Join(ls) ==
    IF Len(ls) = 0 THEN <<>>
    ELSE IF Len(ls) = 1 THEN ls[1]
    ELSE ls[1] \o <<".">> \o Join(Tail(ls))

\* get_tld(candidate, as_object=True, fail_silently=True, fix_protocol=True):
\* nothing when the last label is no known suffix or a label is empty, else
\* the labels before the suffix: the last is res.domain, the rest
\* res.subdomain
get_tld(candidate) ==
    LET ls == Labels(candidate)
    IN IF \/ Len(ls) < 2
          \/ ls[Len(ls)] \notin KnownTlds
          \/ \E i \in 1..Len(ls) : ls[i] = <<>>
       THEN [found |-> FALSE, subdomain |-> <<>>, domain |-> <<>>]
       ELSE [found |-> TRUE,
             subdomain |-> Join(SubSeq(ls, 1, Len(ls) - 2)),
             domain |-> ls[Len(ls) - 1]]

\* tuple(filter(None, re.split(r"\W+", candidate))): the maximal runs of
\* word characters, in order
RECURSIVE Words(_)
Words(s) ==
    IF Len(s) = 0 THEN <<>>
    ELSE IF s[1] \notin WordChars THEN Words(Tail(s))
    ELSE LET n == CHOOSE j \in 1..Len(s) :
                      /\ \A k \in 1..j : s[k] \in WordChars
                      /\ j = Len(s) \/ s[j + 1] \notin WordChars
         IN <<SubSeq(s, 1, n)>> \o Words(SubSeq(s, n + 1, Len(s)))

\* DomainClassifier._prepare_domain
prepare_domain(domain) ==
    LET lowered == Lower(Strip(domain))
        candidate == IF StartsWith(lowered, <<"*", ".">>)
                     THEN SubSeq(lowered, 3, Len(lowered))
                     ELSE lowered
        res == get_tld(candidate)
        stripped == IF ~res.found THEN candidate
                    ELSE IF res.subdomain = <<>> THEN res.domain
                    ELSE res.subdomain \o <<".">> \o res.domain
        none == [ok |-> FALSE, normalized |-> <<>>, words |-> <<>>]
    IN IF domain = <<>> THEN none
       ELSE IF Count(candidate, ".") = 0 \/ Count(candidate, " ") > 0 THEN none
       ELSE IF Words(stripped) = <<>> THEN none
       ELSE [ok |-> TRUE, normalized |-> stripped, words |-> Words(stripped)]

\* variant: every configured TLD that is a suffix is counted
TldBonusEvery(tlds, normalized) ==
    LET hits == {i \in 1..Len(tlds) : EndsWith(normalized, tlds[i])}
    IN IF hits = {} THEN [score |-> 0, matched_tld |-> <<>>]
       ELSE [score |-> 20 * Cardinality(hits),
             matched_tld |-> <<tlds[CHOOSE i \in hits : \A j \in hits : j <= i]>>]

\* classify, the loop over self.rules.tlds: the first TLD in order that the
\* normalized string ends with, then break
TldBonus(tlds, normalized) ==
    LET hits == {i \in 1..Len(tlds) : EndsWith(normalized, tlds[i])}
    IN IF hits = {} THEN [score |-> 0, matched_tld |-> <<>>]
       ELSE [score |-> 20,
             matched_tld |-> <<tlds[CHOOSE i \in hits : \A j \in hits : i <= j]>>]

\* math.log(k, 2.0) in millionths, for k = 1, 2, ...
LOG2 == << 0, 1000000, 1584963, 2000000, 2321928, 2584963, 2807355, 3000000, 3169925, 3321928, 3459432, 3584963, 3700440, 3807355, 3906891, 4000000, 4087463, 4169925, 4247928, 4321928, 4392317, 4459432, 4523562, 4584963 >>

RECURSIVE SumOver(_, _)
SumOver(f, S) ==
    IF S = {} THEN 0
    ELSE LET x == CHOOSE y \in S : TRUE IN f[x] + SumOver(f, S \ {x})

\* round(): to the nearest integer, a half to the even one
RoundHalfEven(num, den) ==
    LET q == num \div den
        r == num % den
    IN IF 2 * r > den THEN q + 1
       ELSE IF 2 * r < den THEN q
       ELSE IF q % 2 = 0 THEN q ELSE q + 1

\* DomainClassifier._entropy_score: int(round(entropy * 10)), the entropy
\* being -sum(p * log2(p)) = log2(n) - sum(c * log2(c)) / n over the counts c
\* of the distinct characters
entropy_score(value) ==
    IF value = <<>> THEN 0
    ELSE LET n == Len(value)
             chars == {value[i] : i \in 1..n}
             weighted == [ch \in chars |-> Count(value, ch) * LOG2[Count(value, ch)]]
         IN RoundHalfEven(10 * (n * LOG2[n] - SumOver(weighted, chars)),
                          n * 1000000)

\* classify, the loop over self.rules.keywords.items(): the keywords that
\* occur in the normalized string, in dictionary order
RECURSIVE KeywordHits(_, _)
KeywordHits(keywords, normalized) ==
    IF keywords = <<>> THEN <<>>
    ELSE (IF Contains(normalized, keywords[1][1]) THEN <<keywords[1]>> ELSE <<>>)
         \o KeywordHits(Tail(keywords), normalized)

RECURSIVE SumWeights(_)
SumWeights(hits) ==
    IF hits = <<>> THEN 0 ELSE hits[1][2] + SumWeights(Tail(hits))

\* the same loop's matched_keyword: the first hit, replaced by every later
\* hit of strictly greater weight
RECURSIVE MatchedKeyword(_, _)
MatchedKeyword(hits, matched) ==
    IF hits = <<>> THEN matched
    ELSE IF matched = <<>> \/ hits[1][2] > matched[1][2]
         THEN MatchedKeyword(Tail(hits), <<hits[1]>>)
         ELSE MatchedKeyword(Tail(hits), matched)

\* variant: the first keyword that occurs stays the matched one
matched_keyword_first(hits) ==
    IF hits = <<>> THEN <<>> ELSE <<hits[1]>>

\* matched_keyword as the loop over the keywords leaves it
matched_keyword(hits) == MatchedKeyword(hits, <<>>)

Min3(a, b, c) ==
    IF a <= b /\ a <= c THEN a ELSE IF b <= c THEN b ELSE c

\* _distance, the inner loop: the row of a[i] from the previous row
RECURSIVE DistanceRow(_, _, _, _)
DistanceRow(ai, b, old, new) ==
    LET j == Len(new)
    IN IF j > Len(b) THEN new
       ELSE DistanceRow(ai, b, old,
                Append(new, IF ai = b[j]
                            THEN old[j]
                            ELSE 1 + Min3(old[j], old[j + 1], new[j])))

\* _distance, the outer loop over a (rows are indexed from 1: row[j + 1] is dp[j])
RECURSIVE DistanceRows(_, _, _, _)
DistanceRows(a, b, i, row) ==
    IF i > Len(a) THEN row
    ELSE DistanceRows(a, b, i + 1, DistanceRow(a[i], b, row, <<i>>))

\* variant: the first row is not initialised to 0, 1, 2, ...
distance_zero_row(a, b) ==
    IF a = b THEN 0
    ELSE DistanceRows(a, b, 1, [j \in 1..(Len(b) + 1) |-> 0])[Len(b) + 1]

\* _distance: the Levenshtein distance
distance(a, b) ==
    IF a = b THEN 0
    ELSE DistanceRows(a, b, 1, [j \in 1..(Len(b) + 1) |-> j - 1])[Len(b) + 1]

\* Rules.strong_keywords
strong_keywords(rules) ==
    SelectSeq(rules.keywords, LAMBDA kw : kw[2] >= 70)

NotRelevant == {<<"e", "m", "a", "i", "l">>, <<"m", "a", "i", "l">>, <<"c", "l", "o", "u", "d">>}

RECURSIVE PairHits(_, _, _)
PairHits(word, targets, limit) ==
    IF targets = <<>> THEN <<>>
    ELSE (IF distance(word, targets[1][1]) \in limit
          THEN << <<word, targets[1][1]>> >> ELSE <<>>)
         \o PairHits(word, Tail(targets), limit)

RECURSIVE WordHits(_, _, _)
WordHits(words, targets, limit) ==
    IF words = <<>> THEN <<>>
    ELSE PairHits(words[1], targets, limit) \o WordHits(Tail(words), targets, limit)

\* variant: a word equal to a strong keyword is a hit too
levenshtein_hits_within_one(rules, words) ==
    WordHits(SelectSeq(words, LAMBDA w : w \notin NotRelevant),
             strong_keywords(rules), {0, 1})

\* DomainClassifier._levenshtein_hits
levenshtein_hits(rules, words) ==
    WordHits(SelectSeq(words, LAMBDA w : w \notin NotRelevant),
             strong_keywords(rules), {1})

\* label_score
label_score(score, thresholds) ==
    IF score >= thresholds.critical THEN "critical"
    ELSE IF score >= thresholds.high THEN "high"
    ELSE IF score >= thresholds.medium THEN "medium"
    ELSE IF score >= thresholds.low THEN "low"
    ELSE "unknown"

\* Classification(score=0, risk="unknown")
Rejected ==
    [score |-> 0, risk |-> "unknown", matched_keyword |-> <<>>,
     matched_tld |-> <<>>, details |-> <<>>]

\* DomainClassifier.classify after _prepare_domain succeeded.  An optional
\* value is <<>> (None) or <<v>>; details hold the normalized string, the
\* keyword_hits list, the levenshtein_hits list and the entropy entry.
Scored(rules, domain) ==
    LET prepared == prepare_domain(domain)
        normalized == prepared.normalized
        words == prepared.words
        tld == TldBonus(rules.tlds, normalized)
        score_entropy == entropy_score(normalized)
        prefix == IF words[1] \in {<<"c", "o", "m">>, <<"n", "e", "t">>, <<"o", "r", "g">>} THEN 10 ELSE 0
        hits == KeywordHits(rules.keywords, normalized)
        keyword == matched_keyword(hits)
        strong_hits == levenshtein_hits(rules, words)
        hyphen_count == Count(normalized, "-")
        hyphens == IF ~Contains(normalized, <<"x", "n", "-", "-">>) /\ hyphen_count >= 4
                   THEN hyphen_count * 3 ELSE 0
        dot_count == Count(normalized, ".")
        dots == IF dot_count >= 3 THEN dot_count * 3 ELSE 0
        score == tld.score + score_entropy + prefix + SumWeights(hits)
                 + 70 * Len(strong_hits) + hyphens + dots
        keyword_hits ==
            (IF tld.score > 0 THEN << <<"tld", tld.matched_tld[1], tld.score>> >> ELSE <<>>)
            \o (IF prefix > 0 THEN << <<"prefix", words[1], prefix>> >> ELSE <<>>)
            \o [i \in 1..Len(hits) |-> <<"keyword", hits[i][1], hits[i][2]>>]
            \o (IF hyphens > 0 THEN << <<"hyphen", hyphen_count, hyphens>> >> ELSE <<>>)
            \o (IF dots > 0 THEN << <<"subdomain", dot_count, dots>> >> ELSE <<>>)
    IN [score |-> score,
        risk |-> label_score(score, rules.thresholds),
        matched_keyword |-> IF keyword # <<>> THEN <<keyword[1][1]>>
                            ELSE IF strong_hits # <<>> THEN <<strong_hits[1][2]>>
                            ELSE <<>>,
        matched_tld |-> tld.matched_tld,
        details |-> <<[normalized |-> normalized,
                       keyword_hits |-> keyword_hits,
                       levenshtein_hits |-> strong_hits,
                       entropy |-> score_entropy]>>]

\* DomainClassifier.classify
classify(rules, domain) ==
    IF prepare_domain(domain).ok THEN Scored(rules, domain) ELSE Rejected

\* variant: the matched TLD is taken out of the rules once it has scored
ClassifyScoredConsumesTld ==
    /\ Len(kout) < MaxCalls
    /\ prepare_domain(kdomain).ok
    /\ kout' = Append(kout, Scored(krules, kdomain))
    /\ krules' = [krules EXCEPT !.tlds =
                     SelectSeq(krules.tlds,
                               LAMBDA t : <<t>> # Scored(krules, kdomain).matched_tld)]
    /\ UNCHANGED <<kdomain, dist_a, dist_b, dist_out>>
    /\ UNCHANGED <<svars, rvars, cvars>>

\* classify is called and returns at its end
ClassifyScored ==
    /\ Len(kout) < MaxCalls
    /\ prepare_domain(kdomain).ok
    /\ kout' = Append(kout, Scored(krules, kdomain))
    /\ UNCHANGED <<krules, kdomain, dist_a, dist_b, dist_out>>
    /\ UNCHANGED <<svars, rvars, cvars>>

\* classify is called and returns early: the domain is not prepared
ClassifyRejected ==
    /\ Len(kout) < MaxCalls
    /\ ~prepare_domain(kdomain).ok
    /\ kout' = Append(kout, Rejected)
    /\ UNCHANGED <<krules, kdomain, dist_a, dist_b, dist_out>>
    /\ UNCHANGED <<svars, rvars, cvars>>

\* a DomainClassifier over one of the rules, and one of the domains
ClassifyInit ==
    /\ Constructed
    /\ krules \in RuleSets
    /\ kdomain \in Domains
    /\ kout = <<>>
    /\ dist_a = <<>>
    /\ dist_b = <<>>
    /\ dist_out = <<>>

ClassifyNext == ClassifyScored \/ ClassifyRejected

ClassifySpec == ClassifyInit /\ [][ClassifyNext]_vars

\* the strings _distance is called with: all over a two-letter alphabet up
\* to MaxWordLen characters, the empty string included
Alphabet == {"a", "b"}
Strings == UNION {[1..n -> Alphabet] : n \in 0..MaxWordLen}

\* _distance is called on the pair, in both argument orders
DistanceCall ==
    /\ dist_out = <<>>
    /\ dist_out' = <<distance(dist_a, dist_b), distance(dist_b, dist_a)>>
    /\ UNCHANGED <<krules, kdomain, kout, dist_a, dist_b>>
    /\ UNCHANGED <<svars, rvars, cvars>>

DistanceInit ==
    /\ Constructed
    /\ krules = NoRules
    /\ kdomain = <<>>
    /\ kout = <<>>
    /\ dist_a \in Strings
    /\ dist_b \in Strings
    /\ dist_out = <<>>

DistanceSpec == DistanceInit /\ [][DistanceCall]_vars

\* ---- claims -------------------------------------------------------------

\* a step in which a caller's start_search(id) takes the lock or returns
StartCalled(id) ==
    /\ ~lock
    /\ \/ mgr'.op = "start" /\ mgr'.id = id
       \/ ret'.op = "start" /\ ret'.id = id

\* a step in which a caller's stop_search(id) takes the lock or returns
StopCalled(id) ==
    /\ ~lock
    /\ \/ mgr'.op = "stop" /\ mgr'.id = id
       \/ ret'.op = "stop" /\ ret'.id = id

\* C1: under every interleaving of start, stop, sweep, stop_all, reader
\* steps and process exits, the number of tracked entries whose process is
\* alive never exceeds the ceiling.
C1_CeilingRespected ==
    Cardinality(AliveTracked) <= MAX_CONCURRENT_SEARCHES

\* the ceiling is reached and a start for a further id has been rejected
C1_Witness ==
    /\ Cardinality(AliveTracked) = MAX_CONCURRENT_SEARCHES
    /\ ret.op = "start" /\ ret.val = "CapacityExceeded"
    /\ ~IsAlive(processes[ret.id])

\* C2: start_search(id) called while the tracked entry of id is alive
\* returns False (no exception) and changes neither the registry, nor any
\* process, handle or reader, nor the persisted status and pid.
C2_StartAliveIsNoOp ==
    [][\A id \in Ids :
          (IsAlive(processes[id]) /\ StartCalled(id))
             => /\ ret' = [op |-> "start", id |-> id, val |-> "False",
                           active |-> {}]
                /\ UNCHANGED <<processes, lock, mgr, hvars, dbvars>>]_vars

\* start returned False for an id whose tracked process is alive
C2_Witness ==
    /\ ret.op = "start" /\ ret.val = "False"
    /\ IsAlive(processes[ret.id])
    /\ status[ret.id] = "running"

\* C3: when the count of start_search finds the number of alive tracked
\* entries at the ceiling, start raises the capacity error, builds and
\* spawns nothing and leaves registry, status and pid unchanged; the error
\* is raised only if at least ceiling-many entries were alive when the
\* count began, so dead tracked entries never count.
C3_CapacityExceeded ==
    [][/\ (mgr.op = "start" /\ mgr.pc = "count" /\ mgr' # mgr
           /\ Cardinality(AliveTracked) >= MAX_CONCURRENT_SEARCHES)
          => /\ ret' = [op |-> "start", id |-> mgr.id,
                        val |-> "CapacityExceeded", active |-> {}]
             /\ UNCHANGED <<processes, hvars, dbvars>>
       /\ (ret'.op = "start" /\ ret'.val = "CapacityExceeded")
          => /\ Cardinality(mgr.snap) >= MAX_CONCURRENT_SEARCHES
             /\ Cardinality(mgr.snap) = Cardinality(mgr.snap \cap Tracked)
             /\ \A i \in mgr.snap : proc[processes[i]] # "none"]_vars

\* the capacity error was raised although the registry holds more entries
\* than the ceiling: the dead one was not counted
C3_Witness ==
    /\ ret.op = "start" /\ ret.val = "CapacityExceeded"
    /\ DeadTracked # {}
    /\ Cardinality(AliveTracked) = MAX_CONCURRENT_SEARCHES
    /\ Cardinality(Tracked) > MAX_CONCURRENT_SEARCHES

\* C4: stop_search(id) for an id that is not in the registry returns False
\* and changes nothing: no signal, no status update, registry unchanged.
C4_StopUnknownIsNoOp ==
    [][\A id \in Ids :
          (processes[id] = NoHandle /\ StopCalled(id))
             => /\ ret' = [op |-> "stop", id |-> id, val |-> "False",
                           active |-> {}]
                /\ UNCHANGED <<processes, lock, mgr, hvars, dbvars>>]_vars

\* stop returned False for an id no handle was ever built for, while some
\* other process is alive and tracked
C4_Witness ==
    /\ ret.op = "stop" /\ ret.val = "False"
    /\ \A h \in Handles : hsearch[h] # ret.id
    /\ AliveTracked # {}

\* C5: SearchProcess.stop() on a handle whose running flag is false returns
\* False without sending a signal or reporting a status, and stop_search
\* then changes nothing except that it evicts the entry if its process is
\* dead.
C5_StopNotRunningIsNoOp ==
    [][/\ (mgr.pc = "hstop" /\ ~running[mgr.h] /\ mgr' # mgr)
          => /\ mgr'.res = "False"
             /\ UNCHANGED <<processes, lock, hvars, dbvars>>
       /\ (mgr.op = "stop" /\ mgr.pc = "evict" /\ mgr.res = "False"
           /\ mgr' # mgr)
          => /\ ret' = [op |-> "stop", id |-> mgr.id, val |-> "False",
                        active |-> {}]
             /\ UNCHANGED <<hvars, dbvars>>
             /\ \A i \in Ids : i # mgr.id => processes'[i] = processes[i]
             /\ processes'[mgr.id] =
                   IF proc[mgr.h] = "alive" THEN mgr.h ELSE NoHandle]_vars

\* SearchProcess.stop() has returned False for a tracked handle whose
\* reader had already finished after the process exited
C5_Witness ==
    /\ mgr.op = "stop" /\ mgr.pc = "evict" /\ mgr.res = "False"
    /\ processes[mgr.id] = mgr.h
    /\ thread[mgr.h] = "done" /\ Exited(mgr.h)
    /\ ~running[mgr.h]

\* C6: once SearchProcess.stop() has returned True for a process that was
\* alive when it got the SIGTERM and then exited with code 0, the store
\* holds status stopped for the id and no pid.
C6_StoppedAndPidCleared ==
    (mgr.op = "stop" /\ mgr.pc = "evict" /\ mgr.res = "True"
     /\ mgr.sent /\ proc[mgr.h] = "exit0")
       => (status[mgr.id] = "stopped" /\ pid[mgr.id] = NoPid)

\* C7: the reader's final report stores the state the exit code determines
\* (crashed if nonzero, stopped if 0) and nothing else, and running is
\* already false when it reports.
C7_ReaderReportsExitState ==
    [][\A h \in Handles :
          (thread[h] = "report" /\ thread'[h] = "done")
             => /\ ~running[h] /\ ~running'[h]
                /\ Exited(h)
                /\ status' = [status EXCEPT ![hsearch[h]] =
                                 IF proc[h] = "exit0" THEN "stopped"
                                                      ELSE "crashed"]
                /\ pid' = pid]_vars

\* a process that was never stopped (it is the only one built for its id
\* and is still tracked) exited with a nonzero code and its reader reported
\* crashed
C7_Witness ==
    \E h \in Handles :
       /\ thread[h] = "done" /\ proc[h] = "exitN"
       /\ ~running[h]
       /\ status[hsearch[h]] = "crashed"
       /\ processes[hsearch[h]] = h
       /\ mgr.op = "none"
       /\ \A g \in Handles : g # h => hsearch[g] # hsearch[h]

\* C8: the registry gets an entry only for a process that was spawned, and
\* an entry is removed or replaced only at a moment when its process is not
\* alive.
C8_RegistryDiscipline ==
    [][\A id \in Ids :
          processes'[id] # processes[id]
             => /\ processes[id] # NoHandle => proc[processes[id]] # "alive"
                /\ processes'[id] # NoHandle
                      => proc'[processes'[id]] # "none"]_vars

\* C9: when the spawn fails, start_search raises, crashed is stored for the
\* id, and nothing else changes: the registry keeps the entry it had (or
\* none), no handle gets a process, a running flag or a reader.
C9_SpawnFailure ==
    [][(ret'.op = "start" /\ ret'.val = "SpawnError")
          => /\ mgr.op = "start" /\ ret'.id = mgr.id
             /\ status' = [status EXCEPT ![mgr.id] = "crashed"]
             /\ UNCHANGED <<processes, proc, running, thread, pid,
                            sigterm, sigkill>>
             /\ \A h \in Handles :
                   hsearch'[h] # hsearch[h]
                      => /\ proc'[h] = "none" /\ ~running'[h]
                         /\ thread'[h] = "none"
                         /\ \A i \in Ids : processes'[i] # h]_vars

\* the restart of an id whose dead entry is still tracked failed to spawn:
\* the old entry is still the one in the registry
C9_Witness ==
    /\ ret.op = "start" /\ ret.val = "SpawnError"
    /\ status[ret.id] = "crashed"
    /\ processes[ret.id] # NoHandle
    /\ Exited(processes[ret.id])

\* C10 as claimed: the registry lock is not held while stop_search waits for
\* its process to exit, so another call can take it.
C10_LockFreeWhileWaiting ==
    (mgr.op = "stop" /\ mgr.pc = "wait") => ~lock

\* C10 amended: a ProcessManager call holds the registry lock from its
\* first step to its return, across spawn, signal and the wait for exit;
\* while it is in progress no other call takes the lock or returns.
C10_LockHeldThroughCall ==
    [][mgr.op # "none"
          => /\ lock
             /\ mgr'.op = mgr.op \/ (mgr'.op = "none" /\ ~lock')
             /\ ret'.op \in {"none", mgr.op}
             /\ mgr'.op = mgr.op => (lock' /\ ret'.op = "none")]_vars

\* stop_search sits in the wait that follows the kill, its process still
\* alive, the lock held, while another id is known to the store
C10_Witness ==
    /\ mgr.op = "stop" /\ mgr.pc = "wait"
    /\ proc[mgr.h] = "alive" /\ sigkill[mgr.h]
    /\ lock
    /\ \E i \in DbIds : i # mgr.id

\* C15: after the reader loop of a handle failed with an unexpected
\* exception, the process is not left alive and tracked out of reach: a
\* later stop_search(id) that returns without raising leaves no entry for
\* the id in the registry (the entry was dead or has been terminated, and is
\* evicted).
C15_StopReachesFailedReader ==
    (ret.op = "stop" /\ ret.val \in {"True", "False"})
        => processes[ret.id] = NoHandle

\* the steps of a SearchProcess.stop call in progress
StopStep ==
    \/ HStopNotRunning
    \/ HStopSignal
    \/ HStopSignalFail
    \/ HStopWaited
    \/ HStopTimeout
    \/ HStopMark

\* the thread inside stop() keeps running, the grace period elapses, and a
\* process that has been sent SIGKILL exits
StopFairness ==
    /\ WF_vars(StopStep)
    /\ \A h \in Handles : WF_vars(sigkill[h] /\ ProcExit(h))

\* the calls on one search id, with the processes and reader threads they
\* create: start_search, stop_search and stop_all
StopNext ==
    \/ \E h \in Handles : ProcExit(h)
    \/ \E h \in Handles : ReaderEof(h)
    \/ \E h \in Handles : ReaderReport(h)
    \/ \E h \in Handles : ReaderFail(h)
    \/ StartAlready(1)
    \/ StartBegin(1)
    \/ StartSpawn
    \/ StartSpawnFail
    \/ StartInsert
    \/ HStopNotRunning
    \/ HStopSignal
    \/ HStopSignalFail
    \/ HStopWaited
    \/ HStopTimeout
    \/ HStopMark
    \/ StopUnknown(1)
    \/ StopBegin(1)
    \/ StopEvict
    \/ StopAllBegin
    \/ StopAllNext
    \/ StopAllClear

StopSpec == Init /\ [][StopNext]_vars /\ StopFairness

\* a stop() call is past its running test and has not returned
InStop == mgr.pc \in {"wait", "mark"}

\* C16 (steps): SIGTERM is sent only by a stop() that found the handle
\* running and then waits; SIGKILL is sent only by a stop() whose wait ran
\* out with the process still alive; the step that completes stop() with
\* True leaves the process exited, running false and stopped stored.
C16_StopSteps ==
    /\ \A h \in Handles :
          /\ (sigterm'[h] /\ ~sigterm[h]) =>
                /\ mgr.pc = "hstop" /\ mgr.h = h /\ running[h]
                /\ mgr'.pc = "wait"
          /\ (sigkill'[h] /\ ~sigkill[h]) =>
                /\ mgr.pc = "wait" /\ mgr.h = h
                /\ proc[h] = "alive" /\ mgr.sent
    /\ (InStop /\ mgr'.pc \notin {"wait", "mark"}) =>
          /\ mgr.pc = "mark"
          /\ mgr'.res = "True"
          /\ proc'[mgr.h] \in {"exit0", "exitN"}
          /\ ~running'[mgr.h]
          /\ status'[hsearch[mgr.h]] = "stopped"

\* C16: stop() on a running process always terminates and leaves the
\* process dead: the signal, the bounded wait and the kill happen as in
\* C16_StopSteps, and a stop() that has sent its signal always returns.
C16_StopTerminates ==
    /\ [][C16_StopSteps]_vars
    /\ InStop ~> ~InStop

\* a stop() that signalled a live process has just completed with True
C16_Witness ==
    /\ mgr.op = "stop" /\ mgr.pc = "evict"
    /\ mgr.sent /\ mgr.res = "True"
    /\ proc[mgr.h] = "exitN"
    /\ ~running[mgr.h]
    /\ status[mgr.id] = "stopped"

\* C17: stop() called while running is still true but the process has
\* already exited is a success: its signal step delivers nothing and goes on
\* to the wait, which returns, and the call completes with True and
\* "stopped" stored; a stop error comes only out of a failure inside the
\* try block of a handle that was running.
C17_AlreadyExitedIsSuccess ==
    /\ (mgr.pc = "hstop" /\ running[mgr.h] /\ Exited(mgr.h) /\ mgr' # mgr) =>
          \/ /\ mgr'.pc = "wait" /\ ~mgr'.sent
             /\ sigterm' = sigterm /\ sigkill' = sigkill
          \/ ret'.val = "StopError"
          \/ mgr'.pc = "next" /\ mgr'.res = "StopError"
    /\ (InStop /\ ~mgr.sent /\ mgr' # mgr) =>
          \/ mgr.pc = "wait" /\ mgr'.pc = "mark"
          \/ /\ mgr.pc = "mark"
             /\ mgr'.pc = AfterStop /\ mgr'.res = "True"
             /\ ~running'[mgr.h]
             /\ status'[hsearch[mgr.h]] = "stopped"
    /\ (\/ ret'.val = "StopError"
        \/ mgr.pc # "next" /\ mgr'.pc = "next" /\ mgr'.res = "StopError")
          => mgr.pc = "hstop" /\ running[mgr.h]

C17_StopOfExitedProcess == [][C17_AlreadyExitedIsSuccess]_vars

\* stop_search has just got True from a stop() that found the process
\* already exited, before the reader thread cleared the running flag
C17_Witness ==
    /\ mgr.op = "stop" /\ mgr.pc = "evict"
    /\ ~mgr.sent /\ mgr.res = "True"
    /\ thread[mgr.h] = "loop"
    /\ proc[mgr.h] = "exitN"
    /\ status[mgr.id] = "stopped"

\* C18: get_status(id) has answered "running" for a tracked id whose
\* process is alive, "stopped" for a tracked id whose process is not alive,
\* the stored status for an untracked id of the database, and None for an
\* id that was never seen.
C18_StatusAnswer ==
    ret.op = "status" =>
        /\ (processes[ret.id] # NoHandle /\ proc[processes[ret.id]] = "alive")
              => ret.val = "running"
        /\ (processes[ret.id] # NoHandle /\ proc[processes[ret.id]] # "alive")
              => ret.val = "stopped"
        /\ (processes[ret.id] = NoHandle /\ ret.id \in DbIds)
              => ret.val = status[ret.id]
        /\ (processes[ret.id] = NoHandle /\ ret.id \notin DbIds)
              => ret.val = "None"

\* get_status answered "stopped" from the probe of a tracked dead process
\* while the stored status of the search is "crashed"
C18_Witness ==
    /\ ret.op = "status" /\ ret.val = "stopped"
    /\ processes[ret.id] # NoHandle
    /\ proc[processes[ret.id]] = "exitN"
    /\ status[ret.id] = "crashed"

\* C19 (step): the step that completes cleanup_dead_processes removes every
\* entry whose process was dead when the scan began, removes only entries
\* whose process is dead, leaves every alive entry in place, and changes no
\* handle, signal or stored status; taking the lock for the scan changes
\* none of them either.
C19_SweepStep ==
    /\ ret'.op = "sweep" =>
          /\ mgr.op = "sweep"
          /\ \A i \in mgr.snap : processes'[i] = NoHandle
          /\ \A i \in Ids :
                /\ processes'[i] \in {processes[i], NoHandle}
                /\ processes'[i] # processes[i] => proc[processes[i]] # "alive"
                /\ (processes[i] # NoHandle /\ proc[processes[i]] = "alive")
                      => processes'[i] = processes[i]
          /\ hvars' = hvars /\ dbvars' = dbvars
    /\ (mgr'.op = "sweep" /\ mgr.op # "sweep") =>
          /\ mgr'.snap = {i \in Ids : processes[i] # NoHandle
                                      /\ proc[processes[i]] # "alive"}
          /\ processes' = processes
          /\ hvars' = hvars /\ dbvars' = dbvars

\* C19: cleanup_dead_processes removes exactly the dead tracked entries and
\* leaves the alive ones; it sends no signal and stores no status.
C19_SweepRemovesDead == [][C19_SweepStep]_vars

\* a sweep has returned: an alive entry is still tracked, and the entry of a
\* process that died without any stop (its running flag was never cleared)
\* is gone
C19_Witness ==
    /\ ret.op = "sweep"
    /\ \E i \in Ids : processes[i] # NoHandle /\ proc[processes[i]] = "alive"
    /\ \E h \in Handles :
          /\ hsearch[h] \in DbIds
          /\ processes[hsearch[h]] = NoHandle
          /\ proc[h] \in {"exit0", "exitN"}
          /\ running[h]

\* C20: when stop_all returns, no process that was tracked when it was
\* called is still alive (the registry is unchanged from the call until the
\* clear() of the returning step).
C20_StopAllStep ==
    ret'.op = "stop_all" =>
        \A i \in Ids : processes[i] # NoHandle
                          => proc'[processes[i]] # "alive"

C20_StopAllLeavesNoneAlive == [][C20_StopAllStep]_vars

\* the line numbers in q are lines of the stream, in rising order
InStreamOrder(q) ==
    \A k \in 1..Len(q) :
        /\ q[k] \in 1..Len(emitted)
        /\ k > 1 => q[k - 1] < q[k]

\* C11: for one managed process, the results handed to add_result, and the
\* rows stored, follow the order of the lines the process emitted: each is
\* the stripped text of a line of the stream, and of a later line than the
\* one before it (no reordering, no duplication).
C11_InOrder ==
    /\ InStreamOrder([k \in 1..Len(offered) |-> offered[k].line])
    /\ InStreamOrder([k \in 1..Len(results) |-> results[k].line])
    /\ \A k \in 1..Len(offered) :
          offered[k].args = <<hsearch[RH], Strip(emitted[offered[k].line])>>
    /\ \A k \in 1..Len(results) :
          /\ results[k].search_id = hsearch[RH]
          /\ results[k].domain = Strip(emitted[results[k].line])

\* two lines of the stream have been handed over, in their order
C11_Witness ==
    /\ Len(offered) = 2
    /\ offered[1].args[2] # offered[2].args[2]
    /\ offered[1].args[2] = Strip(emitted[1])
    /\ offered[2].args[2] = Strip(emitted[2])

\* line k of the stream has been taken by the reader while running was
\* true, and the loop body is through with it
Processed(k) == k \in 1..rpos /\ (k < rpos \/ rpc = "next")

\* the wording of the line test: non-empty after trimming, none of the
\* eight markers in any letter case, a dot, and no whitespace
WordedValid(line) ==
    LET domain == Strip(line)
    IN  /\ domain # <<>>
        /\ ~Skipped(domain)
        /\ Contains(domain, <<".">>)
        /\ \A i \in 1..Len(domain) : domain[i] \notin Whitespace

\* C12: a line read while the process is running is delivered to the
\* results table exactly once, as its id and trimmed text, if and only if
\* it is non-empty after trimming, contains no status marker, contains a
\* dot and contains no whitespace; any other line causes no add_result call.
C12_DeliveredIffValid ==
    \A k \in 1..Len(emitted) :
        Processed(k) =>
            IF WordedValid(emitted[k])
            THEN /\ Cardinality({j \in 1..Len(results) :
                                    results[j].line = k}) = 1
                 /\ \A j \in 1..Len(results) :
                       results[j].line = k =>
                          /\ results[j].search_id = hsearch[RH]
                          /\ results[j].domain = Strip(emitted[k])
            ELSE \A j \in 1..Len(offered) : offered[j].line # k

\* C13: a valid line whose classification raised is still delivered: once
\* the loop body is through with it, the results table holds its row, given
\* with a null score, risk, keyword, TLD and record.
C13_ClassifyFailureStillDelivered ==
    \A j \in 1..Len(offered) :
        (/\ Processed(offered[j].line)
         /\ \A f \in DOMAIN offered[j].kw : offered[j].kw[f] = "None")
            => \E r \in 1..Len(results) :
                  /\ results[r].line = offered[j].line
                  /\ results[r].domain = offered[j].args[2]

\* C14 (step): the step that makes the add_result call, also when the call
\* raises, is the only call for its line, leaves the reader in its loop at
\* the next line and changes neither the running flag nor the stored
\* status; the next line is then taken, tested, classified and offered like
\* any other, whatever became of the earlier calls; and the reader that
\* reaches the end of the stream still writes the status of the exit code.
C14_SaveStep ==
    /\ rpc = "save" /\ rpc' # "save" =>
          /\ rpc' = "next" /\ rpos' = rpos
          /\ Len(offered') = Len(offered) + 1
          /\ offered'[Len(offered')].line = rpos
          /\ \A j \in 1..Len(offered) : offered[j].line < rpos
          /\ thread' = thread /\ running' = running /\ status' = status
    /\ HasLine /\ running[RH] /\ rpos' # rpos =>
          /\ rpos' = rpos + 1
          /\ IF Accepted(emitted[rpos + 1])
             THEN rpc' = "classify"
             ELSE rpc' = "next" /\ offered' = offered
    /\ rpc = "classify" /\ rpc' # "classify" => rpc' = "save"
    /\ thread[RH] = "report" /\ thread'[RH] # "report" =>
          /\ thread'[RH] = "done"
          /\ status'[hsearch[RH]] = ReaderState(RH)

\* C14: a failed persistence call does not stop the reader loop: later
\* valid lines are still classified and offered, the failed line is not
\* retried, and the final status is still reported at the end of the stream.
C14_LoopSurvivesSaveFailure == [][C14_SaveStep]_vars

\* the calls for two lines both failed, the second was still made, and the
\* reader has reported the final status
C14_Witness ==
    /\ Len(offered) = 2
    /\ offered[1].line = 1 /\ offered[2].line = 2
    /\ results = <<>>
    /\ thread[RH] = "done"
    /\ status[hsearch[RH]] = "crashed"
    /\ proc[RH] = "exitN"

\* C21 (step): a process comes to life, and a SearchProcess is constructed,
\* only in the spawn step of a start_search call that holds the lock, one
\* per call: the call is at its count, the new process is the call's handle
\* and was never alive before, and the call goes on to the insert, from
\* where it can only return.  No step of a reader, of stop, status, list,
\* sweep or stop_all brings a process to life.
C21_SpawnStep ==
    /\ \A h \in Handles :
          (proc'[h] = "alive" /\ proc[h] # "alive") =>
              /\ proc[h] = "none"
              /\ mgr.op = "start" /\ mgr.pc = "count" /\ lock
              /\ mgr'.op = "start" /\ mgr'.pc = "insert" /\ mgr'.h = h
              /\ \A g \in Handles \ {h} : proc'[g] = proc[g]
    /\ \A h \in Handles :
          hsearch'[h] # hsearch[h] =>
              /\ hsearch[h] = Unbuilt
              /\ mgr.op = "start" /\ mgr.pc = "count"
              /\ mgr'.pc # "count"
    /\ mgr.pc = "insert" => (mgr' = mgr \/ mgr' = Idle)

\* C21: no process is spawned except as the direct effect of a start call,
\* at most one per call; a crashed or stopped process is never respawned.
C21_SpawnOnlyByStart == [][C21_SpawnStep]_vars

\* a process has crashed, its reader has reported it and a sweep has
\* evicted it: the process stays dead and nothing is alive
C21_Witness ==
    /\ ret.op = "sweep"
    /\ \E h \in Handles :
          /\ proc[h] = "exitN" /\ thread[h] = "done"
          /\ status[hsearch[h]] = "crashed"
          /\ processes[hsearch[h]] = NoHandle
    /\ \A h \in Handles : proc[h] # "alive"


\* C22: every line is classified with the rules that are in the cache at the
\* time the line is processed: a line-classification step of any running
\* process uses the classifier the cache holds at that moment.
C22_LineUsesCachedRules ==
    [][used' # NoClassifier => used' = cached_classifier']_vars

\* a call of get_classifier by c completes in this step
GetFinishes(c) == gc[c].pc = "locked" /\ gc'[c].pc = "idle"

\* C23: every caller of get_classifier that returns is given rules at least
\* as new as the modification time it observed for its path (the document
\* at that path being well-formed).
C23_ReturnsAtLeastObserved ==
    [][\A c \in Callers :
          (GetFinishes(c) /\ gret'.val = "classifier" /\ Loadable(gc[c].path))
              => hcls'[c].version >= gc[c].mtime]_vars

\* caller c found the path of the cached rules gone: it stat'ed that path
\* and found nothing, or it was given the other path because the override
\* does not exist
FoundCachedPathGone(c) ==
    /\ cached_classifier # NoClassifier
    /\ ~files[cached_rules_path].exists
    /\ \/ gc[c].path = cached_rules_path /\ gc[c].mtime = NoMtime
       \/ gc[c].path # cached_rules_path /\ cached_rules_path = "override"

\* C24: when the path of the cached rules has disappeared, a call of
\* get_classifier returns the cached classifier: it does not raise and the
\* cache is not replaced.
C24_KeepsLastGood ==
    [][\A c \in Callers :
          (GetFinishes(c) /\ FoundCachedPathGone(c))
              => /\ gret'.val = "classifier"
                 /\ hcls'[c] = cached_classifier
                 /\ cached_classifier' = cached_classifier]_vars

\* C25: a reload attempted on a malformed rules document leaves the cached
\* classifier and the cached modification time unchanged, and the caller is
\* served the cached classifier.
C25_MalformedServesPrior ==
    [][\A c \in Callers :
          (/\ GetFinishes(c)
           /\ gc[c].must_reload
           /\ cached_classifier # NoClassifier
           /\ files[gc[c].path].exists
           /\ ~files[gc[c].path].ok)
              => /\ cached_classifier' = cached_classifier
                 /\ cached_mtime' = cached_mtime
                 /\ gret'.val = "classifier"
                 /\ hcls'[c] = cached_classifier]_vars

\* a failed reload changes nothing in the cache
FailedReloadKeepsCache ==
    [][\A c \in Callers :
          (GetFinishes(c) /\ gret'.val = "raise")
              => UNCHANGED <<cached_classifier, cached_rules_path,
                             cached_mtime>>]_vars

\* the decision to reload is taken and acted
\* on under the lock, so a parse happens only when the cache is empty, holds
\* another path, or is older than the caller's observation, and the parse
\* records that observation
ReloadIsSingleFlight ==
    [][\A c \in Callers :
          (GetFinishes(c) /\ cached_classifier' # cached_classifier)
              => /\ MustReload(gc[c].path, gc[c].mtime)
                 /\ cached_rules_path' = gc[c].path
                 /\ cached_mtime' = gc[c].mtime]_vars


\* the calls of classify that were scored to the end
ScoredCalls == {i \in 1..Len(kout) : kout[i].details # <<>>}

\* the tiers in rank order, highest first
Tiers == <<"critical", "high", "medium", "low">>

\* the highest tier whose threshold the score meets, else unknown
HighestTierMet(score, thresholds) ==
    LET met == {t \in 1..Len(Tiers) : score >= thresholds[Tiers[t]]}
    IN IF met = {} THEN "unknown"
       ELSE Tiers[CHOOSE t \in met : \A u \in met : t <= u]

\* C26: for every domain and every RuleSet the score of a classification is
\* at least 0 and its risk is the highest tier whose threshold the score
\* meets (equality counts; below low is unknown).
C26_ScoreAndRisk ==
    \A i \in 1..Len(kout) :
        /\ kout[i].score >= 0
        /\ kout[i].risk = HighestTierMet(kout[i].score, krules.thresholds)

SuffixTlds(i) ==
    {t \in 1..Len(krules.tlds) :
        EndsWith(kout[i].details[1].normalized, krules.tlds[t])}

\* the TLD entries among the contributing signals of call i
TldEntries(i) ==
    SelectSeq(kout[i].details[1].keyword_hits, LAMBDA hit : hit[1] = "tld")

\* C28: the TLD bonus is +20 at most once per classification: when several
\* configured TLDs are suffixes of the normalized string, only the first in
\* RuleSet order is counted and it is the matched_tld.
C28_TldOnce ==
    \A i \in ScoredCalls :
        IF SuffixTlds(i) = {}
        THEN TldEntries(i) = <<>> /\ kout[i].matched_tld = <<>>
        ELSE LET first == krules.tlds[CHOOSE t \in SuffixTlds(i) :
                                          \A u \in SuffixTlds(i) : t <= u]
             IN /\ TldEntries(i) = << <<"tld", first, 20>> >>
                /\ kout[i].matched_tld = <<first>>

C28_Witness ==
    \E i \in ScoredCalls :
        /\ Cardinality(SuffixTlds(i)) >= 2
        /\ kout[i].matched_tld = <<krules.tlds[1]>>

\* b is a with one character removed
OneRemoved(a, b) ==
    /\ Len(a) = Len(b) + 1
    /\ \E k \in 1..Len(a) : b = SubSeq(a, 1, k - 1) \o SubSeq(a, k + 1, Len(a))

\* a and b are at edit distance exactly 1: one substitution, one insertion
\* or one deletion
EditDistanceOne(a, b) ==
    \/ Len(a) = Len(b) /\ Cardinality({k \in 1..Len(a) : a[k] # b[k]}) = 1
    \/ OneRemoved(a, b)
    \/ OneRemoved(b, a)

\* the (token, strong keyword) pairs of call i at edit distance exactly 1,
\* tokens being taken by position and email, mail and cloud left out
NearMissPairs(i) ==
    LET words == Words(kout[i].details[1].normalized)
    IN {p \in (1..Len(words)) \X (1..Len(krules.keywords)) :
           /\ words[p[1]] \notin NotRelevant
           /\ krules.keywords[p[2]][2] >= 70
           /\ EditDistanceOne(words[p[1]], krules.keywords[p[2]][1])}

RECURSIVE SumScores(_)
SumScores(hits) ==
    IF hits = <<>> THEN 0 ELSE hits[1][3] + SumScores(Tail(hits))

\* what the score of call i holds beyond the entropy and the listed signals
FuzzyBonus(i) ==
    kout[i].score - kout[i].details[1].entropy
                  - SumScores(kout[i].details[1].keyword_hits)

\* C29: the fuzzy bonus is 70 times the number of (token, strong keyword)
\* pairs at edit distance exactly 1; pairs at distance 0 or at distance 2
\* or more contribute nothing.
C29_FuzzyBonus ==
    \A i \in ScoredCalls :
        /\ FuzzyBonus(i) = 70 * Cardinality(NearMissPairs(i))
        /\ Len(kout[i].details[1].levenshtein_hits) = Cardinality(NearMissPairs(i))

C29_Witness ==
    \E i \in ScoredCalls :
        /\ FuzzyBonus(i) = 140
        /\ kdomain = <<"l", "o", "g", "o", "n", ".", "l", "o", "g", "i", "m", ".", "t", "k">>

\* the scenario: keywords {login: 80}, tlds [tk], default thresholds, and
\* the domain secure-login.bank.tk
Scenario ==
    /\ krules = [keywords |-> << <<(<<"l", "o", "g", "i", "n">>), 80>> >>,
                 tlds |-> << <<"t", "k">> >>,
                 thresholds |-> DEFAULT_THRESHOLDS]
    /\ kdomain = <<"s", "e", "c", "u", "r", "e", "-", "l", "o", "g", "i", "n",
                   ".", "b", "a", "n", "k", ".", "t", "k">>

\* C30: in the scenario the classification holds the TLD bonus +20 with
\* matched_tld tk, the keyword bonus +80 for login, no hyphen bonus and a
\* positive entropy, and so a score of at least 100 and risk critical.
C30_Scenario ==
    Scenario =>
        \A i \in 1..Len(kout) :
            /\ kout[i].details # <<>>
            /\ kout[i].matched_tld = << <<"t", "k">> >>
            /\ \E h \in 1..Len(kout[i].details[1].keyword_hits) :
                   kout[i].details[1].keyword_hits[h] = <<"tld", <<"t", "k">>, 20>>
            /\ \E h \in 1..Len(kout[i].details[1].keyword_hits) :
                   kout[i].details[1].keyword_hits[h]
                       = <<"keyword", <<"l", "o", "g", "i", "n">>, 80>>
            /\ \A h \in 1..Len(kout[i].details[1].keyword_hits) :
                   kout[i].details[1].keyword_hits[h][1] # "hyphen"
            /\ kout[i].details[1].entropy > 0
            /\ kout[i].score >= 100
            /\ kout[i].risk = "critical"


\* the input, stripped, lower-cased and without a leading wildcard label
Candidate(domain) ==
    LET lowered == Lower(Strip(domain))
    IN IF StartsWith(lowered, <<"*", ".">>)
       THEN SubSeq(lowered, 3, Len(lowered)) ELSE lowered

\* the input is empty, or holds whitespace inside, or has no dot once the
\* wildcard label is gone, or has no word character at all
NotADomain(domain) ==
    \/ domain = <<>>
    \/ \E i \in 1..Len(Candidate(domain)) : Candidate(domain)[i] \in Whitespace
    \/ \A i \in 1..Len(Candidate(domain)) : Candidate(domain)[i] # "."
    \/ \A i \in 1..Len(Candidate(domain)) : Candidate(domain)[i] \notin WordChars

\* C31: classify returns score 0 and risk unknown, with no matched keyword
\* and no matched TLD, for every input that is empty, contains whitespace,
\* has no dot after the wildcard label is stripped, or has no words.
C31_RejectsNonDomains ==
    NotADomain(kdomain) =>
        \A i \in 1..Len(kout) :
            /\ kout[i].score = 0
            /\ kout[i].risk = "unknown"
            /\ kout[i].matched_keyword = <<>>
            /\ kout[i].matched_tld = <<>>


\* C32: for each successful start the status (id, running, pid) is stored
\* before the reader runs: the step that starts the reader of a handle
\* leaves the row of its id at running with its pid, and only a handle whose
\* reader was started gets a terminal status from its reader or from stop.
C32_Step ==
    \A h \in Handles :
        /\ (thread[h] = "none" /\ thread'[h] # "none")
               => /\ status'[hsearch'[h]] = "running"
                  /\ pid'[hsearch'[h]] = h
        /\ (thread[h] # thread'[h] /\ thread'[h] \in {"done", "failed"})
               => thread[h] \in {"loop", "report"}
        /\ (mgr.pc = "mark" /\ mgr.h = h /\ mgr'.pc # "mark")
               => thread[h] # "none"

C32_StatusBeforeReader == [][C32_Step]_vars

C32_Witness ==
    \E h \in Handles :
        /\ thread[h] = "done"
        /\ status[hsearch[h]] = "crashed"
        /\ pid[hsearch[h]] = h


\* the configured keywords that occur in the normalized string of call i
SubstringMatches(i) ==
    {k \in 1..Len(krules.keywords) :
        Contains(kout[i].details[1].normalized, krules.keywords[k][1])}

\* C33: when at least one configured keyword occurs in the normalized
\* string, matched_keyword is one of the occurring keywords of maximal
\* weight; a fuzzy target is the matched keyword only when none occurs.
C33_MatchedKeyword ==
    \A i \in ScoredCalls :
        IF SubstringMatches(i) # {}
        THEN \E k \in SubstringMatches(i) :
                /\ kout[i].matched_keyword = <<krules.keywords[k][1]>>
                /\ \A m \in SubstringMatches(i) :
                       krules.keywords[m][2] <= krules.keywords[k][2]
        ELSE \/ kout[i].matched_keyword = <<>>
                  /\ kout[i].details[1].levenshtein_hits = <<>>
             \/ /\ kout[i].details[1].levenshtein_hits # <<>>
                /\ kout[i].matched_keyword
                       = <<kout[i].details[1].levenshtein_hits[1][2]>>

C33_Witness ==
    \E i \in ScoredCalls :
        /\ Cardinality(SubstringMatches(i)) >= 2
        /\ kout[i].matched_keyword # <<krules.keywords[1][1]>>
        /\ 1 \in SubstringMatches(i)


\* the Levenshtein distance by its definition: the cheapest of deleting the
\* head of a, inserting the head of b, and substituting (or keeping) heads
RECURSIVE Levenshtein(_, _)
Levenshtein(a, b) ==
    IF a = <<>> THEN Len(b)
    ELSE IF b = <<>> THEN Len(a)
    ELSE Min3(1 + Levenshtein(Tail(a), b),
              1 + Levenshtein(a, Tail(b)),
              (IF a[1] = b[1] THEN 0 ELSE 1) + Levenshtein(Tail(a), Tail(b)))

\* C34: the fallback of _distance returns the exact Levenshtein distance for
\* every pair of strings up to the bound, the empty string included, and
\* gives the same value with its arguments exchanged.
C34_ExactAndSymmetric ==
    dist_out # <<>> =>
        /\ dist_out[1] = Levenshtein(dist_a, dist_b)
        /\ dist_out[1] = dist_out[2]

C34_Witness ==
    /\ dist_out # <<>>
    /\ dist_a = <<>>
    /\ Len(dist_b) = MaxWordLen
    /\ dist_out[1] = MaxWordLen


\* SearchProcess.stop has returned True for handle h and stop_search has
\* not yet returned
StopReturnedTrue(h) ==
    mgr.op = "stop" /\ mgr.pc = "evict" /\ mgr.h = h /\ mgr.res = "True"

\* C35: once stop() has returned true for a process, the stored status of
\* its id is stopped and the reader thread of that process does not
\* overwrite it with crashed.
C35_StoppedStays ==
    [][\A h \in Handles :
          StopReturnedTrue(h)
              => /\ status[hsearch[h]] = "stopped"
                 /\ thread'[h] # thread[h] => status'[hsearch[h]] # "crashed"]_vars


\* a start or a stop of id is in progress
StartOrStopInProgress(id) ==
    \/ mgr.id = id /\ mgr.op \in {"start", "stop"}
    \/ mgr.op = "stop_all"

\* C36: whenever an id is tracked with an alive process and no start or
\* stop for it is in progress, the stored status of the id is running.
C36_AliveTrackedIsRunning ==
    \A id \in Ids :
        (IsAlive(processes[id]) /\ ~StartOrStopInProgress(id))
            => status[id] = "running"

\* the processes spawned for id that are alive
AliveFor(id) == {h \in Handles : hsearch[h] = id /\ proc[h] = "alive"}

\* C37: at any time at most one process spawned for a given id is alive.
C37_OneAlivePerId ==
    \A id \in Ids : Cardinality(AliveFor(id)) <= 1


\* stop() of the followed process has returned True: it cleared `running`
\* while the reader thread was still inside its loop (the reader itself
\* clears the flag only on leaving the loop)
StopReturnedTrueFor(h) == thread[h] = "loop" /\ ~running[h]

\* C38: after stop() has returned True for a process, the reader makes no
\* further db.add_result call for it: a line that is buffered or already
\* past the `running` test is dropped.
C38_NoResultAfterStop ==
    [][StopReturnedTrueFor(RH) => offered' = offered]_vars


\* the steps of a ProcessManager call that holds the registry lock
LockedStep ==
    \/ StartCapacity
    \/ StartNotFound
    \/ StartSpawn
    \/ StartSpawnFail
    \/ StartInsert
    \/ StopStep
    \/ StopEvict
    \/ ListEnd
    \/ SweepEnd
    \/ StopAllNext
    \/ StopAllClear

\* the thread that holds the lock keeps running, and a process that has
\* been sent SIGKILL exits
LockFairness ==
    /\ WF_vars(LockedStep)
    /\ \A h \in Handles : WF_vars(sigkill[h] /\ ProcExit(h))

\* every call of the manager, with a scheduler that lets the lock holder run
LockSpec == Init /\ [][Next]_vars /\ LockFairness

\* the reader thread of a handle can take its next step
ReaderCanStep(h) ==
    /\ (thread[h] = "loop" /\ Exited(h)) => ENABLED ReaderEof(h)
    /\ thread[h] = "report" => ENABLED ReaderReport(h)

\* C39: no operation of the manager deadlocks: a call that has taken the
\* registry lock always releases it, also when it raises, and a reader
\* thread can finish whether or not the lock is held (it never waits for
\* it), given that a process that was sent SIGKILL exits.
C39_NoDeadlock ==
    /\ [](\A h \in Handles : ReaderCanStep(h))
    /\ lock ~> ~lock

\* a stop holds the lock in its second wait, after the kill, while the
\* reader of the process is still in its loop
C39_Witness ==
    /\ lock /\ mgr.pc = "wait"
    /\ proc[mgr.h] = "alive" /\ sigkill[mgr.h]
    /\ thread[mgr.h] = "loop"


\* the cached rules were parsed from content at least as new as the
\* modification time recorded with them
CachedAtLeastRecorded ==
    cached_mtime # NoMtime =>
        /\ cached_classifier # NoClassifier
        /\ cached_classifier.version >= cached_mtime

\* caller c returns in this step, and the document it was directed to is
\* the current one, is well-formed and has not changed since c looked at it
QuietCall(c) ==
    /\ GetFinishes(c)
    /\ gret'.val = "classifier"
    /\ gc[c].path = CurrentRulesPath
    /\ Loadable(gc[c].path)
    /\ gc[c].mtime = files[gc[c].path].mtime

\* a quiet call returns the rules of the latest content
QuietCallIsFresh(c) ==
    QuietCall(c) => hcls'[c].version = files[gc[c].path].mtime

\* with a modification time recorded in the cache, a quiet call returns the
\* rules of the latest content
RecordedMtimeKeepsFresh ==
    [][\A c \in Callers : cached_mtime # NoMtime => QuietCallIsFresh(c)]_vars

\* C40: the cache is never stale relative to its recorded modification
\* time: the cached rules were parsed from content at least as new as the
\* cached mtime, so a call of get_classifier made after the document stopped
\* changing returns rules parsed from its latest content, under any
\* interleaving of callers and writes with increasing modification times.
C40_NeverStale ==
    /\ []CachedAtLeastRecorded
    /\ [][\A c \in Callers : QuietCallIsFresh(c)]_vars

====
